---- MODULE Spec2Model ----
(***************************************************************************)
(* Tile cache management of osgEarth's TerrainLayer: the CacheManager      *)
(* registry of CacheSettings, the lazy binding of a layer to its settings  *)
(* and cache bin, and the cache-bin metadata validate/create protocol of   *)
(* TerrainLayer::getCacheBin, run by concurrent threads.                   *)
(***************************************************************************)
EXTENDS Naturals, Sequences, FiniteSets, TLC

\* ------------------------------------------------------------------ universe

Layers == {"L1", "L2"}
Threads == {"t1", "t2"}
Drivers == {"tms", "wms"}
BinIds == {"binA", "binB"}
\* the `profile` argument of getCacheBin: a null pointer or a real profile
ProfileArgs == {"null", "geo"}

\* how many times setReadOptions may be called on one layer
MaxResets == 1
\* settings made per id by the cache manager, where entries can be closed
MaxInstances == 2

NULL == "null"
UNSET == "unset"
NONE == "none"

\* ------------------------------------------------------------------ CachePolicy

Usages == {UNSET, "READ_WRITE", "CACHE_ONLY", "NO_CACHE"}

\* an optional number: <<>> when unset, <<v>> when set to v
Unset == <<>>
Some(v) == <<v>>

CachePolicy(u) == [usage |-> u, minTime |-> Unset, maxAge |-> Unset]

DEFAULT == CachePolicy(UNSET)
NO_CACHE == CachePolicy("NO_CACHE")
CACHE_ONLY == CachePolicy("CACHE_ONLY")

isCacheDisabled(p) == p.usage = "NO_CACHE"
isCacheEnabled(p) == p.usage # "NO_CACHE"
isCacheOnly(p) == p.usage = "CACHE_ONLY"

\* (only the usage is merged)
mergeAndOverrideUsage(self, other) ==
    [self EXCEPT !.usage = IF other.usage # UNSET THEN other.usage ELSE self.usage]

\* every field set in `other` overwrites the field of `self`
mergeAndOverride(self, other) ==
    [usage   |-> IF other.usage # UNSET THEN other.usage ELSE self.usage,
     minTime |-> IF other.minTime # Unset THEN other.minTime ELSE self.minTime,
     maxAge  |-> IF other.maxAge # Unset THEN other.maxAge ELSE self.maxAge]

\* ------------------------------------------------------------------ profiles, metadata

\* Profile::toProfileOptions and Profile::create: a profile and its serialized form
toProfileOptions(p) == <<"options", p>>
ProfileCreate(po) == po[2]

\* getMetadataKey: the horizontal signature plus a suffix, or the default key
getMetadataKey(profile) ==
    IF profile # NULL THEN profile \o "_metadata" ELSE "_metadata"

Keys == {getMetadataKey(p) : p \in ProfileArgs}

\* what a bin holds under a key: nothing, an unparsable string, or a record
ABSENT == [kind |-> "absent"]
\* (parsed, an unparsable string gives a record that is not OK, its fields unset)
CORRUPT ==
    [kind |-> "corrupt", cacheBinId |-> "", sourceDriver |-> "", sourceTileSize |-> 0,
     sourceProfile |-> toProfileOptions("null"), cacheProfile |-> toProfileOptions("null")]
\* no record: a null CacheBinMetadata pointer, a key the metadata cache lacks
NoRecord == [kind |-> "none"]

CacheBinMetadata(id, drv, tileSize, srcProfile, cacheProfile) ==
    [kind |-> "record", cacheBinId |-> id, sourceDriver |-> drv, sourceTileSize |-> tileSize,
     sourceProfile |-> srcProfile, cacheProfile |-> cacheProfile]

IsRecord(x) == x.kind = "record"

\* a record left in bin b by an earlier run of a layer with driver d
StoredRecord(b, d) ==
    CacheBinMetadata(b, d, 512, toProfileOptions("merc"), toProfileOptions("geo"))

\* ------------------------------------------------------------------ state

VARIABLES
    layer,        \* per layer: the fields of TerrainLayer
    mutex,        \* per layer: TerrainLayer::_mutex, [owner, depth]
    lut,          \* CacheManager::_lut: per id the CacheSettings instance it
                  \*   maps to (numbered as constructed), 0 with no entry
    cmMutex,      \* CacheManager::_mutex: its owner
    settings,     \* the CacheSettings objects: [Layers -> [kind -> [policy, bin]]]
    store,        \* what each bin of the shared Cache holds under each key
    th,           \* per thread: the operation it runs, its position and locals
    crashed,      \* the process died on undefined behaviour
    constructed,  \* history: CacheSettings constructed by the manager, per id
    writes,       \* history: metadata writes issued per layer and key since the
                  \*   layer's metadata cache was last cleared
    resets        \* history: setReadOptions calls per layer

vars == <<layer, mutex, lut, cmMutex, settings, store, th, crashed,
          constructed, writes, resets>>

NoMeta == [k \in Keys |-> NoRecord]

\* a layer as TerrainLayer's constructor and init() leave it
NewLayer(drv, cid, hint, lastMod, tsProfile) ==
    [conf |-> [driver |-> drv, cacheid |-> cid],  \* the Config of the options
     initCalled |-> TRUE,                \* history: init() has run
     destroyed |-> FALSE,                \* history: the destructor has run
     tsCreations |-> 0,                  \* history: calls of createTileSource
     driver |-> drv,                     \* _runtimeOptions->driver()
     cacheId |-> cid,                    \* _runtimeOptions->cacheId()
     tsHintNoCache |-> hint,             \* what the tile source will hint
     tsLastModified |-> lastMod,         \* what the tile source will report
     tsProfile |-> tsProfile,            \* the profile the tile source will have
     runtimePolicy |-> DEFAULT,          \* _runtimeOptions->cachePolicy()
     initPolicySet |-> FALSE,            \* _initOptions.cachePolicy().isSet()
     readOptionsCM |-> FALSE,            \* _readOptions carries a CacheManager
     cmPolicy |-> DEFAULT,               \* that manager's defaultCachePolicy()
     cacheSettings |-> NULL,             \* _cacheSettings: null, "reg" or "priv"
     cacheBinMetadata |-> NoMeta,        \* _cacheBinMetadata
     effectiveCachePolicy |-> DEFAULT,   \* _effectiveCachePolicy
     openCalled |-> FALSE,
     tileSource |-> NULL,
     profile |-> NULL,
     tileSize |-> 256,
     enabled |-> TRUE]

Idle ==
    [pc |-> "idle", l |-> NONE, profile |-> NULL, stack |-> <<>>,
     cs |-> NULL, bin |-> NULL, meta |-> NoRecord, ret |-> NULL,
     rr |-> NONE, outcome |-> NONE, nw |-> 0, arg |-> FALSE, inst |-> 0]

FreeMutex == [owner |-> NONE, depth |-> 0]

NewSettings == [policy |-> DEFAULT, bin |-> NULL]

\* everything but the layers' configuration and the bins' contents
InitRest ==
    /\ mutex = [l \in Layers |-> FreeMutex]
    /\ lut = [l \in Layers |-> 0]
    /\ cmMutex = NONE
    /\ settings = [l \in Layers |-> [k \in {"reg", "priv"} |-> NewSettings]]
    /\ th = [t \in Threads |-> Idle]
    /\ crashed = FALSE
    /\ constructed = [l \in Layers |-> 0]
    /\ writes = [l \in Layers |-> [k \in Keys |-> 0]]
    /\ resets = [l \in Layers |-> 0]

\* ------------------------------------------------------------------ cache identity

\* A Config is modelled by its children: a function from keys to values.

\* the keys of the layer-level settings getConfig writes when they are set
LayerKeys ==
    {"min_level", "max_level", "min_resolution", "max_resolution",
     "loading_weight", "enabled", "visible", "edge_buffer_ratio",
     "reprojected_tilesize", "max_data_level"}

\* every key a Config may hold, in the order toJSON writes them
KeyOrder ==
    <<"driver", "url", "name", "min_level", "max_level", "min_resolution",
      "max_resolution", "loading_weight", "enabled", "visible",
      "edge_buffer_ratio", "reprojected_tilesize", "max_data_level",
      "cache_policy", "cache_only", "cache_enabled", "cacheid",
      "l2_cache_size", "vsrs", "vdatum">>

\* Config::hasValue: the key is there with a non-empty value
hasValue(c, k) == k \in DOMAIN c /\ c[k] # ""

\* Config::remove
ConfigRemove(c, k) == [x \in DOMAIN c \ {k} |-> c[x]]

\* Config::operator-: the left side without the keys of the right side
ConfigMinus(a, b) == [x \in DOMAIN a \ DOMAIN b |-> a[x]]

\* Config::add
ConfigAdd(c, k, v) == [x \in DOMAIN c \cup {k} |-> IF x = k THEN v ELSE c[x]]

\* Config::toJSON: the children, key and value, one after the other
RECURSIVE toJSONFrom(_, _)
toJSONFrom(c, i) ==
    IF i > Len(KeyOrder) THEN ""
    ELSE (IF KeyOrder[i] \in DOMAIN c
          THEN KeyOrder[i] \o ":" \o c[KeyOrder[i]] \o ";"
          ELSE "") \o toJSONFrom(c, i + 1)

toJSON(c) == "{" \o toJSONFrom(c, 1) \o "}"

\* osgEarth::hashString, taken to be injective: the hash of a string is
\* written as the string it hashes
hashString(s) == "hash" \o s

\* Stringify() << std::hex << std::setw(8) << std::setfill('0') << hash
Hex(hash) == "0x" \o hash

\* fromConfig: _vertDatum is read from vdatum, then from the older vsrs
vertDatumSet(conf) == "vdatum" \in DOMAIN conf \/ "vsrs" \in DOMAIN conf

vertDatum(conf) == IF "vsrs" \in DOMAIN conf THEN conf["vsrs"] ELSE conf["vdatum"]

\* fromConfig: _cacheId is the cacheid of the Config, if any
optionsCacheId(conf) == IF "cacheid" \in DOMAIN conf THEN conf["cacheid"] ELSE ""

\* fromConfig: _cachePolicy, with the legacy cache_only and cache_enabled
optionsCachePolicy(conf) ==
    IF "cache_enabled" \in DOMAIN conf /\ conf["cache_enabled"] = "false"
    THEN NO_CACHE
    ELSE IF "cache_only" \in DOMAIN conf /\ conf["cache_only"] = "true"
         THEN CACHE_ONLY
         ELSE DEFAULT

\* getConfig(true) of options read from conf: the name, and every layer-level
\* setting that is set; nothing of the driver
getConfig(conf) ==
    LET keys == {"name"}
                \cup (LayerKeys \cap DOMAIN conf)
                \cup (IF vertDatumSet(conf) THEN {"vdatum"} ELSE {})
                \cup ({"cacheid"} \cap DOMAIN conf)
                \cup (IF hasValue(conf, "cache_policy") THEN {"cache_policy"} ELSE {})
    IN [k \in keys |-> IF k = "vdatum" THEN vertDatum(conf)
                       ELSE IF k \in DOMAIN conf THEN conf[k] ELSE ""]

\* the five cache-control keys init() removes before hashing
RECURSIVE RemoveAll(_, _)
RemoveAll(c, ks) ==
    IF ks = <<>> THEN c ELSE RemoveAll(ConfigRemove(c, Head(ks)), Tail(ks))

CacheControlKeys ==
    <<"cache_only", "cache_enabled", "cache_policy", "cacheid", "l2_cache_size">>

\* (the driver's Config less the layer's, with the cache-control keys left in)
hashConfUnfiltered(conf) ==
    LET layerConf == getConfig(conf)
        diff == ConfigMinus(conf, layerConf)
    IN IF hasValue(layerConf, "vdatum")
       THEN ConfigAdd(diff, "vdatum", layerConf["vdatum"])
       ELSE diff

\* (the driver's Config less the layer's and the cache-control keys, without
\* the vertical datum)
hashConfNoDatum(conf) ==
    RemoveAll(ConfigMinus(conf, getConfig(conf)), CacheControlKeys)

\* init(): the Config that is hashed. The driver's Config is the Config the
\* options were read from; the layer's own keys and the cache-control keys are
\* taken out of it and the vertical datum is put in.
hashConf(conf) ==
    LET layerConf == getConfig(conf)
        driverConf == conf
        filtered == RemoveAll(ConfigMinus(driverConf, layerConf), CacheControlKeys)
    IN IF hasValue(layerConf, "vdatum")
       THEN ConfigAdd(filtered, "vdatum", layerConf["vdatum"])
       ELSE filtered

\* init(): the generated cache id
generateCacheId(conf) == Hex(hashString(toJSON(hashConf(conf))))

\* init(): the user set a cache id in the options, and not an empty one
cacheIdIsExplicit(ly) == "cacheid" \in DOMAIN ly.conf /\ ly.cacheId # ""

\* (the cache id is generated whatever the options say)
initCacheIdGenerated(ly) == generateCacheId(ly.conf)

\* init(): the cache id the options hold afterwards
initCacheId(ly) ==
    IF cacheIdIsExplicit(ly) THEN ly.cacheId ELSE generateCacheId(ly.conf)

\* a layer built from options read from conf, before init()
LayerFromConfig(conf, hint, lastMod, tsProfile) ==
    [NewLayer(conf["driver"], optionsCacheId(conf), hint, lastMod, tsProfile)
        EXCEPT !.conf = conf,
               !.initCalled = FALSE,
               !.runtimePolicy = optionsCachePolicy(conf),
               !.initPolicySet = "cache_policy" \in DOMAIN conf]

\* the layer as init() leaves it
Initialized(ly) ==
    [ly EXCEPT !.cacheId = initCacheId(ly), !.tileSize = 256, !.initCalled = TRUE]

\* TerrainLayer::init()
init(l) ==
    /\ ~crashed
    /\ ~layer[l].initCalled
    /\ layer' = [layer EXCEPT ![l] = Initialized(layer[l])]
    /\ UNCHANGED <<mutex, lut, cmMutex, settings, store, th, crashed,
                   constructed, writes, resets>>

\* ------------------------------------------------------------------ helpers

\* (a layer mutex that excludes nobody)
CanLockAlways(l, t) == TRUE

\* (a mutex that its owner cannot lock again)
CanLockOnce(l, t) == mutex[l].owner = NONE

\* (one mutex for all the layers)
CanLockGlobal(l, t) == \A x \in Layers : mutex[x].owner \in {NONE, t}

\* Threading::ScopedMutexLock on a layer's _mutex (an OpenThreads mutex, which a
\* thread that owns it may lock again)
CanLock(l, t) == mutex[l].owner \in {NONE, t}

Lock(m, t) == [owner |-> t, depth |-> m.depth + 1]

Unlock(m) == IF m.depth = 1 THEN FreeMutex ELSE [m EXCEPT !.depth = m.depth - 1]

\* a call of a subroutine and the return from it
Call(rec, sub, retpc) == [rec EXCEPT !.pc = sub, !.stack = <<retpc>> \o rec.stack]

Return(rec) == [rec EXCEPT !.pc = Head(rec.stack), !.stack = Tail(rec.stack)]

Start(t, op, l) == [Idle EXCEPT !.pc = op, !.l = l]

At(t, p) == ~crashed /\ th[t].pc = p

\* ------------------------------------------------------------------ setReadOptions

CallSetReadOptions(t, l, cm) ==
    /\ At(t, "idle")
    /\ resets[l] < MaxResets
    /\ th' = [th EXCEPT ![t] = [Start(t, "sro_opts", l) EXCEPT !.arg = cm]]
    /\ resets' = [resets EXCEPT ![l] = resets[l] + 1]
    /\ UNCHANGED <<layer, mutex, lut, cmMutex, settings, store, crashed,
                   constructed, writes>>

\* _readOptions is replaced, outside the lock
SetReadOptionsStore(t) ==
    /\ At(t, "sro_opts")
    /\ layer' = [layer EXCEPT ![th[t].l].readOptionsCM = th[t].arg]
    /\ th' = [th EXCEPT ![t].pc = "sro_reset"]
    /\ UNCHANGED <<mutex, lut, cmMutex, settings, store, crashed,
                   constructed, writes, resets>>

\* a thread's pointer to the layer's private settings dangles once the layer
\* drops its reference, the only one
Dropped(rec, l) ==
    IF rec.l = l /\ rec.cs = "priv" /\ layer[l].cacheSettings = "priv"
    THEN [rec EXCEPT !.cs = "dangling"] ELSE rec

\* under the lock: the settings binding and the metadata cache are reset
SetReadOptionsReset(t) ==
    LET l == th[t].l IN
    /\ At(t, "sro_reset")
    /\ CanLock(l, t)
    /\ layer' = [layer EXCEPT ![l].cacheSettings = NULL,
                              ![l].cacheBinMetadata = NoMeta]
    /\ writes' = [writes EXCEPT ![l] = [k \in Keys |-> 0]]
    /\ th' = [u \in Threads |-> IF u = t THEN Idle ELSE Dropped(th[u], l)]
    /\ UNCHANGED <<mutex, lut, cmMutex, settings, store, crashed,
                   constructed, resets>>

\* ------------------------------------------------------------------ CacheManager

CallGetOrCreateSettings(t, id) ==
    /\ At(t, "idle")
    /\ th' = [th EXCEPT ![t] = Call(Start(t, "gos_chk", id), "gos_chk", "gos_done")]
    /\ UNCHANGED <<layer, mutex, lut, cmMutex, settings, store, crashed,
                   constructed, writes, resets>>

\* the entry of an id, as the caller receives it
Found(rec) == Return([rec EXCEPT !.ret = "reg", !.inst = lut[rec.l]])

\* the unguarded look: an entry that is there is returned
GosCheck(t) ==
    /\ At(t, "gos_chk")
    /\ th' = [th EXCEPT ![t] = IF lut[th[t].l] # 0
                               THEN Found(th[t])
                               ELSE [th[t] EXCEPT !.pc = "gos_lock"]]
    /\ UNCHANGED <<layer, mutex, lut, cmMutex, settings, store, crashed,
                   constructed, writes, resets>>

\* (a manager mutex that excludes nobody)
CmCanLockAlways(t) == TRUE

\* CacheManager::_mutex is free
CmCanLock(t) == cmMutex = NONE

GosLock(t) ==
    /\ At(t, "gos_lock")
    /\ CmCanLock(t)
    /\ cmMutex' = t
    /\ th' = [th EXCEPT ![t].pc = "gos_rechk"]
    /\ UNCHANGED <<layer, mutex, lut, settings, store, crashed,
                   constructed, writes, resets>>

\* the look again, under the manager's lock
GosRecheck(t) ==
    /\ At(t, "gos_rechk")
    /\ IF lut[th[t].l] # 0
       THEN /\ th' = [th EXCEPT ![t] = Found(th[t])]
            /\ cmMutex' = NONE
       ELSE /\ th' = [th EXCEPT ![t].pc = "gos_new"]
            /\ UNCHANGED cmMutex
    /\ UNCHANGED <<layer, mutex, lut, settings, store, crashed,
                   constructed, writes, resets>>

\* a new CacheSettings, seeded with the manager's default policy, is inserted
\* under the id and returned
GosConstruct(t) ==
    LET id == th[t].l
        n == constructed[id] + 1
    IN
    /\ At(t, "gos_new")
    /\ lut' = [lut EXCEPT ![id] = n]
    /\ settings' = [settings EXCEPT ![id]["reg"] =
                        [NewSettings EXCEPT !.policy = layer[id].cmPolicy]]
    /\ constructed' = [constructed EXCEPT ![id] = n]
    /\ cmMutex' = NONE
    /\ th' = [th EXCEPT ![t] = Return([th[t] EXCEPT !.ret = "reg", !.inst = n])]
    /\ UNCHANGED <<layer, mutex, store, crashed, writes, resets>>

\* (every entry is removed)
closeEverything(lu, id) == [x \in DOMAIN lu |-> 0]

\* CacheManager::close: the entry of the id, if there is one, is removed
close(lu, id) == [lu EXCEPT ![id] = 0]

\* close(id) called on the manager, under its lock; an id stays open once
\* MaxInstances settings were made for it
CallClose(t, id) ==
    /\ At(t, "idle")
    /\ CmCanLock(t)
    /\ constructed[id] < MaxInstances
    /\ lut' = close(lut, id)
    /\ UNCHANGED <<layer, mutex, cmMutex, settings, store, th, crashed,
                   constructed, writes, resets>>

\* no thread is at work on layer l
Quiet(l) == \A u \in Threads : th[u].l # l

\* TerrainLayer::~TerrainLayer: the settings of the layer are closed in the
\* cache manager its read options carry now, if they carry one
Destroy(t, l) ==
    /\ At(t, "idle")
    /\ Quiet(l)
    /\ ~layer[l].destroyed
    /\ IF layer[l].readOptionsCM
       THEN CmCanLock(t) /\ lut' = close(lut, l)
       ELSE UNCHANGED lut
    /\ layer' = [layer EXCEPT ![l].destroyed = TRUE]
    /\ UNCHANGED <<mutex, cmMutex, settings, store, th, crashed,
                   constructed, writes, resets>>

GosDone(t) ==
    /\ At(t, "gos_done")
    /\ th' = [th EXCEPT ![t] = Idle]
    /\ UNCHANGED <<layer, mutex, lut, cmMutex, settings, store, crashed,
                   constructed, writes, resets>>

\* ------------------------------------------------------------------ getCacheSettings

CallGetCacheSettings(t, l) ==
    /\ At(t, "idle")
    /\ th' = [th EXCEPT ![t] = Call(Start(t, "gcs_chk", l), "gcs_chk", "gcs_done")]
    /\ UNCHANGED <<layer, mutex, lut, cmMutex, settings, store, crashed,
                   constructed, writes, resets>>

\* the unguarded look at _cacheSettings
GcsCheck(t) ==
    /\ At(t, "gcs_chk")
    /\ th' = [th EXCEPT ![t].pc = IF layer[th[t].l].cacheSettings # NULL
                                  THEN "gcs_ret" ELSE "gcs_lock"]
    /\ UNCHANGED <<layer, mutex, lut, cmMutex, settings, store, crashed,
                   constructed, writes, resets>>

\* the lock, the look again, and the search for a CacheManager in _readOptions
GcsLock(t) ==
    LET l == th[t].l IN
    /\ At(t, "gcs_lock")
    /\ CanLock(l, t)
    /\ IF layer[l].cacheSettings # NULL
       THEN /\ th' = [th EXCEPT ![t].pc = "gcs_ret"]
            /\ UNCHANGED mutex
       ELSE /\ mutex' = [mutex EXCEPT ![l] = Lock(mutex[l], t)]
            /\ th' = [th EXCEPT ![t] = IF layer[l].readOptionsCM
                                       THEN Call(th[t], "gos_chk", "gcs_assign")
                                       ELSE [th[t] EXCEPT !.pc = "gcs_backup"]]
    /\ UNCHANGED <<layer, lut, cmMutex, settings, store, crashed,
                   constructed, writes, resets>>

\* _cacheSettings = cm->getOrCreateSettings(uid)
GcsAssign(t) ==
    /\ At(t, "gcs_assign")
    /\ layer' = [layer EXCEPT ![th[t].l].cacheSettings = th[t].ret]
    /\ th' = [th EXCEPT ![t].pc = "gcs_merge"]
    /\ UNCHANGED <<mutex, lut, cmMutex, settings, store, crashed,
                   constructed, writes, resets>>

\* the effective policy, then the layer's own policy, are merged in
MergedPolicy(l) ==
    mergeAndOverride(mergeAndOverride(settings[l]["reg"].policy,
                                      layer[l].effectiveCachePolicy),
                     layer[l].runtimePolicy)

GcsMerge(t) ==
    LET l == th[t].l IN
    /\ At(t, "gcs_merge")
    /\ settings' = [settings EXCEPT ![l]["reg"].policy = MergedPolicy(l)]
    /\ th' = [th EXCEPT ![t].pc = "gcs_bin"]
    /\ UNCHANGED <<layer, mutex, lut, cmMutex, store, crashed,
                   constructed, writes, resets>>

\* Cache::addBin: the bin of that name, or null on a backend failure
addBin(binID) == {binID, NULL}

\* (a bin is added whatever the policy)
OpensBinAlways(pol) == TRUE

\* a bin is added if the merged policy enables caching
OpensBin(pol) == isCacheEnabled(pol)

\* with caching enabled the bin named by the cache id becomes the active bin
GcsBin(t) ==
    LET l == th[t].l IN
    /\ At(t, "gcs_bin")
    /\ IF OpensBin(settings[l]["reg"].policy)
       THEN \E bin \in addBin(layer[l].cacheId) :
                settings' = IF bin # NULL
                            THEN [settings EXCEPT ![l]["reg"].bin = bin]
                            ELSE settings
       ELSE UNCHANGED settings
    /\ mutex' = [mutex EXCEPT ![l] = Unlock(mutex[l])]
    /\ th' = [th EXCEPT ![t].pc = "gcs_ret"]
    /\ UNCHANGED <<layer, lut, cmMutex, store, crashed,
                   constructed, writes, resets>>

\* the backup plan: _cacheSettings = new CacheSettings()
GcsBackupNew(t) ==
    LET l == th[t].l IN
    /\ At(t, "gcs_backup")
    /\ layer' = [layer EXCEPT ![l].cacheSettings = "priv"]
    /\ settings' = [settings EXCEPT ![l]["priv"] = NewSettings]
    /\ th' = [th EXCEPT ![t].pc = "gcs_backup2"]
    /\ UNCHANGED <<mutex, lut, cmMutex, store, crashed,
                   constructed, writes, resets>>

\* ... whose policy is set to NO_CACHE
GcsBackupPolicy(t) ==
    LET l == th[t].l IN
    /\ At(t, "gcs_backup2")
    /\ settings' = [settings EXCEPT ![l]["priv"].policy = NO_CACHE]
    /\ mutex' = [mutex EXCEPT ![l] = Unlock(mutex[l])]
    /\ th' = [th EXCEPT ![t].pc = "gcs_ret"]
    /\ UNCHANGED <<layer, lut, cmMutex, store, crashed,
                   constructed, writes, resets>>

\* return _cacheSettings.get(), read after the lock is released
GcsReturn(t) ==
    /\ At(t, "gcs_ret")
    /\ th' = [th EXCEPT ![t] = Return([th[t] EXCEPT
                                          !.cs = layer[th[t].l].cacheSettings])]
    /\ UNCHANGED <<layer, mutex, lut, cmMutex, settings, store, crashed,
                   constructed, writes, resets>>

GcsDone(t) ==
    /\ At(t, "gcs_done")
    /\ th' = [th EXCEPT ![t] = Idle]
    /\ UNCHANGED <<layer, mutex, lut, cmMutex, settings, store, crashed,
                   constructed, writes, resets>>

\* ------------------------------------------------------------------ open

\* (the flag is flipped)
disableToggle(ly) == [ly EXCEPT !.enabled = ~ly.enabled]

\* TerrainLayer::disable
disable(ly) == IF ly.enabled THEN [ly EXCEPT !.enabled = FALSE] ELSE ly

\* disable() called on the layer
CallDisable(t, l) ==
    /\ At(t, "idle")
    /\ layer' = [layer EXCEPT ![l] = disable(layer[l])]
    /\ UNCHANGED <<mutex, lut, cmMutex, settings, store, th, crashed,
                   constructed, writes, resets>>

CallOpen(t, l) ==
    /\ At(t, "idle")
    /\ th' = [th EXCEPT ![t] = Start(t, "open_chk", l)]
    /\ UNCHANGED <<layer, mutex, lut, cmMutex, settings, store, crashed,
                   constructed, writes, resets>>

\* the unguarded look at _openCalled
OpenCheck(t) ==
    /\ At(t, "open_chk")
    /\ th' = [th EXCEPT ![t].pc = IF layer[th[t].l].openCalled
                                  THEN "open_ret" ELSE "open_lock"]
    /\ UNCHANGED <<layer, mutex, lut, cmMutex, settings, store, crashed,
                   constructed, writes, resets>>

\* (the lock without the look again at _openCalled)
OpenLockNoRecheck(t) ==
    LET l == th[t].l IN
    /\ At(t, "open_lock")
    /\ CanLock(l, t)
    /\ IF layer[l].tileSource # NULL
       THEN /\ layer' = [layer EXCEPT ![l].profile = layer[l].tsProfile,
                                      ![l].openCalled = TRUE]
            /\ th' = [th EXCEPT ![t].pc = "open_ret"]
            /\ UNCHANGED mutex
       ELSE /\ mutex' = [mutex EXCEPT ![l] = Lock(mutex[l], t)]
            /\ th' = [th EXCEPT ![t] = Call(th[t], "gcs_chk", "open_body")]
            /\ UNCHANGED layer
    /\ UNCHANGED <<lut, cmMutex, settings, store, crashed,
                   constructed, writes, resets>>

\* the lock and the look again; with a pre-created tile source its profile is
\* taken and the layer is open, otherwise the cache settings are fetched
OpenLock(t) ==
    LET l == th[t].l IN
    /\ At(t, "open_lock")
    /\ CanLock(l, t)
    /\ IF layer[l].openCalled
       THEN /\ th' = [th EXCEPT ![t].pc = "open_ret"]
            /\ UNCHANGED <<mutex, layer>>
       ELSE IF layer[l].tileSource # NULL
       THEN /\ layer' = [layer EXCEPT ![l].profile = layer[l].tsProfile,
                                      ![l].openCalled = TRUE]
            /\ th' = [th EXCEPT ![t].pc = "open_ret"]
            /\ UNCHANGED mutex
       ELSE /\ mutex' = [mutex EXCEPT ![l] = Lock(mutex[l], t)]
            /\ th' = [th EXCEPT ![t] = Call(th[t], "gcs_chk", "open_body")]
            /\ UNCHANGED layer
    /\ UNCHANGED <<lut, cmMutex, settings, store, crashed,
                   constructed, writes, resets>>

\* createTileSource with a tile source that opened: tile size and profile
TileSourceCreated(ly) ==
    [ly EXCEPT !.tileSize = 256,
               !.profile = IF ly.profile = NULL THEN ly.tsProfile ELSE ly.profile]

\* createTileSource without a tile source: an enabled cache is forced to
\* cache-only, and without a cache the layer is disabled
ForcedPolicy(pol) == IF isCacheEnabled(pol) THEN CACHE_ONLY ELSE pol

\* (a NO_CACHE hint counts whatever the layer's options say)
HintAppliesAlways(ly) == ly.tsHintNoCache

\* refreshTileSourceCachePolicyHint: the hint counts if its usage is NO_CACHE
\* and the initialization options set no policy
HintApplies(ly) == ~ly.initPolicySet /\ ly.tsHintNoCache

\* (the hint is taken whatever the layer's options say)
HintedPolicyAlways(ly, pol) == IF ly.tsHintNoCache THEN NO_CACHE ELSE pol

\* refreshTileSourceCachePolicyHint: a NO_CACHE hint replaces the policy unless
\* the layer's initialization options set one
HintedPolicy(ly, pol) == IF HintApplies(ly) THEN NO_CACHE ELSE pol

\* the tile source's last-modified time becomes the effective minimum time
EffectivePolicy(ly) ==
    IF ly.runtimePolicy.minTime = Unset /\ ly.runtimePolicy.maxAge = Unset
       /\ ly.tsLastModified > 0
    THEN [ly.runtimePolicy EXCEPT !.minTime = Some(ly.tsLastModified)]
    ELSE ly.effectiveCachePolicy

\* (the tile source is created whatever the policy)
SkipsTileSourceNever(pol) == FALSE

\* open() does not try to create the tile source in cache-only mode
SkipsTileSource(pol) == isCacheOnly(pol)

\* the rest of open(), under the lock: the tile source is created unless the
\* policy is cache-only. getCacheSettings() is dereferenced as it comes: without
\* settings behind it the process dies
OpenBody(t) ==
    LET l == th[t].l
        cs == th[t].cs
        pol == settings[l][cs].policy
    IN
    /\ At(t, "open_body")
    /\ IF cs \notin {"reg", "priv"}
       THEN /\ crashed' = TRUE
            /\ th' = [th EXCEPT ![t].pc = "crashed"]
            /\ UNCHANGED <<layer, settings, mutex>>
       ELSE /\ IF SkipsTileSource(pol)
               THEN /\ layer' = [layer EXCEPT ![l].openCalled = TRUE]
                    /\ UNCHANGED settings
               ELSE \E ok \in BOOLEAN :
                    IF ok
                    THEN /\ layer' = [layer EXCEPT ![l] =
                                [TileSourceCreated(layer[l]) EXCEPT
                                    !.effectiveCachePolicy = EffectivePolicy(layer[l]),
                                    !.tileSource = layer[l].driver,
                                    !.tsCreations = @ + 1,
                                    !.openCalled = TRUE]]
                         /\ settings' = [settings EXCEPT ![l][cs].policy =
                                            HintedPolicy(layer[l], pol)]
                    ELSE /\ layer' = [layer EXCEPT ![l] =
                                [(IF isCacheDisabled(ForcedPolicy(pol))
                                  THEN disable(layer[l]) ELSE layer[l])
                                 EXCEPT !.tsCreations = @ + 1,
                                        !.openCalled = TRUE]]
                         /\ settings' = [settings EXCEPT ![l][cs].policy =
                                            ForcedPolicy(pol)]
            /\ mutex' = [mutex EXCEPT ![l] = Unlock(mutex[l])]
            /\ th' = [th EXCEPT ![t].pc = "open_ret"]
            /\ UNCHANGED crashed
    /\ UNCHANGED <<lut, cmMutex, store, constructed, writes, resets>>

OpenReturn(t) ==
    /\ At(t, "open_ret")
    /\ th' = [th EXCEPT ![t] = Idle]
    /\ UNCHANGED <<layer, mutex, lut, cmMutex, settings, store, crashed,
                   constructed, writes, resets>>

\* ------------------------------------------------------------------ getCacheBin

CallGetCacheBin(t, l, p) ==
    /\ At(t, "idle")
    /\ th' = [th EXCEPT ![t] = [Start(t, "gcb_chk", l) EXCEPT !.profile = p]]
    /\ UNCHANGED <<layer, mutex, lut, cmMutex, settings, store, crashed,
                   constructed, writes, resets>>

\* the call is over: its result and what it did stay visible until the thread
\* goes on
Finish(rec, r, what) ==
    [Idle EXCEPT !.pc = "gcb_ret", !.l = rec.l, !.profile = rec.profile,
                 !.ret = r, !.outcome = what, !.rr = rec.rr, !.meta = rec.meta,
                 !.nw = rec.nw]

\* illegal before open(); otherwise the cache settings are fetched
GcbCheck(t) ==
    /\ At(t, "gcb_chk")
    /\ th' = [th EXCEPT ![t] = IF ~layer[th[t].l].openCalled
                               THEN Finish(th[t], NULL, "notopen")
                               ELSE Call(th[t], "gcs_chk", "gcb_policy")]
    /\ UNCHANGED <<layer, mutex, lut, cmMutex, settings, store, crashed,
                   constructed, writes, resets>>

\* (the policy is not looked at)
GivesNoBinNever(pol) == FALSE

\* getCacheBin gives no bin when the settings' policy disables caching
GivesNoBin(pol) == isCacheDisabled(pol)

\* no settings, caching disabled or no active bin: no bin. Settings the layer
\* has dropped meanwhile are freed memory: the read crashes or finds them as
\* they were, private settings with no bin
GcbPolicy(t) ==
    LET l == th[t].l
        cs == th[t].cs
    IN
    /\ At(t, "gcb_policy")
    /\ IF cs = NULL
       THEN /\ th' = [th EXCEPT ![t] = Finish(th[t], NULL, "nosettings")]
            /\ UNCHANGED crashed
       ELSE IF cs = "dangling"
       THEN \E dies \in BOOLEAN :
            /\ crashed' = dies
            /\ th' = [th EXCEPT ![t] = IF dies THEN [th[t] EXCEPT !.pc = "crashed"]
                                       ELSE Finish(th[t], NULL, "nocache")]
       ELSE /\ th' = [th EXCEPT ![t] =
                        IF GivesNoBin(settings[l][cs].policy)
                        THEN Finish(th[t], NULL, "nocache")
                        ELSE IF settings[l][cs].bin = NULL
                        THEN Finish(th[t], NULL, "nobin")
                        ELSE [th[t] EXCEPT !.bin = settings[l][cs].bin,
                                           !.pc = "gcb_lock"]]
            /\ UNCHANGED crashed
    /\ UNCHANGED <<layer, mutex, lut, cmMutex, settings, store,
                   constructed, writes, resets>>

\* CacheBin::readString: what the bin holds under the key, or a failure (the
\* key is not there, or the backend fails)
ReadResults(content) ==
    IF content = ABSENT THEN {"notfound"}
    ELSE IF content = CORRUPT THEN {"corrupt", "ioerror"}
    ELSE {"valid", "ioerror"}

\* ReadResult::succeeded: a string came back, parsable or not
succeeded(rr) == rr \in {"valid", "corrupt"}

\* (any record that was read counts as OK)
metadataOKUnparsed(rr) == succeeded(rr)

\* rr.succeeded() and the parsed record isOK()
metadataOK(rr) == succeeded(rr) /\ rr = "valid"

\* (the driver check left out)
DriverMismatchNever(meta, ly) == FALSE

\* the stored driver differs from the live tile source's
DriverMismatch(meta, ly) == meta.sourceDriver # ly.tileSource

\* a tile source and a layer profile are there
HasSource(ly) == ly.tileSource # NULL /\ ly.profile # NULL

\* the record a layer creates; a null `profile` is dereferenced for the cache
\* profile
NewMetadata(ly, cacheProfile) ==
    CacheBinMetadata(ly.cacheId, ly.tileSource, ly.tileSize,
                     toProfileOptions(ly.profile), cacheProfile)

\* (the stored tile size is not taken over)
AdoptProfileOnly(ly, meta) == [ly EXCEPT !.profile = ProfileCreate(meta.sourceProfile)]

\* in cache-only mode the layer's profile comes from the first record read
AdoptProfile(ly, meta) ==
    [ly EXCEPT !.profile = ProfileCreate(meta.sourceProfile),
               !.tileSize = meta.sourceTileSize]

Memoize(ly, key, meta) == [ly EXCEPT !.cacheBinMetadata[key] = meta]

\* (the metadata cache is never consulted)
NeedsMetadataAlways(ly, key) == TRUE

\* the metadata cache lacks the key
NeedsMetadata(ly, key) == ly.cacheBinMetadata[key] = NoRecord


\* how the guarded section of getCacheBin ends: the layer and the policy of its
\* settings afterwards, and either a record to write (next = "gcb_write") or the
\* call's result
Ending(ly, pol, bin) ==
    [layer |-> ly, policy |-> pol, next |-> "gcb_ret", ret |-> bin,
     outcome |-> NONE, meta |-> NoRecord, deref |-> FALSE]

\* (a cache of another driver switches the layer off)
RejectMismatchAndDisable(e) ==
    [e EXCEPT !.layer = disable(e.layer), !.policy = NO_CACHE, !.ret = NULL,
              !.outcome = "mismatch"]

\* a cache of another driver: caching is switched off for the layer
RejectMismatch(e) ==
    [e EXCEPT !.policy = NO_CACHE, !.ret = NULL, !.outcome = "mismatch"]

\* the stored record is taken as it is
Accept(e, key, meta) ==
    [e EXCEPT !.layer = Memoize(e.layer, key, meta), !.outcome = "accepted",
              !.meta = meta]

\* cache-only and no profile yet: the stored record gives the profile
Adopt(e, key, meta) ==
    [e EXCEPT !.layer = Memoize(AdoptProfile(e.layer, meta), key, meta),
              !.outcome = "adopted", !.meta = meta]

\* no usable record, and a tile source to describe: a record to write
Prepare(e, profile) ==
    [e EXCEPT !.next = "gcb_write", !.deref = (profile = NULL),
              !.meta = NewMetadata(e.layer, toProfileOptions(
                           IF profile = NULL THEN "garbage" ELSE profile))]

\* (caching is switched off where the layer should be)
DisableCachingOnly(e) ==
    [e EXCEPT !.policy = NO_CACHE, !.ret = NULL, !.outcome = "disabled"]

\* no usable record, nothing to create one from, cache-only: the layer is off
DisableLayer(e) ==
    [e EXCEPT !.layer = disable(e.layer), !.ret = NULL, !.outcome = "disabled"]

\* (the layer is switched off as well)
RejectAndDisable(e) ==
    [e EXCEPT !.layer = disable(e.layer), !.policy = NO_CACHE, !.ret = NULL,
              !.outcome = "rejected"]

\* no usable record, nothing to create one from: caching is switched off
RejectCaching(e) ==
    [e EXCEPT !.policy = NO_CACHE, !.ret = NULL, !.outcome = "rejected"]

\* what the guarded section decides once the key was read with result rr
Decide(ly, pol, profile, bin, content, rr) ==
    LET key == getMetadataKey(profile)
        e == Ending(ly, pol, bin)
    IN
    IF metadataOK(rr)
    THEN IF HasSource(ly)
         THEN IF DriverMismatch(content, ly)
              THEN RejectMismatch(e)
              ELSE Accept(e, key, content)
         ELSE IF isCacheOnly(pol) /\ ly.profile = NULL
              THEN Adopt(e, key, content)
              ELSE Accept(e, key, content)
    ELSE IF HasSource(ly)
         THEN Prepare(e, profile)
         ELSE IF isCacheOnly(pol)
              THEN DisableLayer(e)
              ELSE RejectCaching(e)

\* under the layer's lock: a memoized key is a lookup; otherwise the key is read
\* from the bin and the record validated, or a new one prepared
GcbProtocol(t) ==
    LET l == th[t].l
        cs == th[t].cs
        bin == th[t].bin
        key == getMetadataKey(th[t].profile)
    IN
    /\ At(t, "gcb_lock")
    /\ CanLock(l, t)
    /\ IF ~NeedsMetadata(layer[l], key)
       THEN /\ th' = [th EXCEPT ![t] =
                        Finish([th[t] EXCEPT !.meta = layer[l].cacheBinMetadata[key]],
                               bin, "lookup")]
            /\ UNCHANGED <<layer, settings, mutex, crashed>>
       ELSE \E rr \in ReadResults(store[bin][key]) :
            LET d == Decide(layer[l], settings[l][cs].policy, th[t].profile,
                            bin, store[bin][key], rr)
                rec == [th[t] EXCEPT !.rr = rr, !.meta = d.meta]
            IN
            /\ layer' = [layer EXCEPT ![l] = d.layer]
            /\ settings' = [settings EXCEPT ![l][cs].policy = d.policy]
            /\ \E dies \in (IF d.deref THEN BOOLEAN ELSE {FALSE}) : crashed' = dies
            /\ IF d.next = "gcb_write"
               THEN /\ mutex' = [mutex EXCEPT ![l] = Lock(mutex[l], t)]
                    /\ th' = [th EXCEPT ![t] = [rec EXCEPT !.pc =
                                 IF crashed' THEN "crashed" ELSE "gcb_write"]]
               ELSE /\ UNCHANGED mutex
                    /\ th' = [th EXCEPT ![t] = Finish(rec, d.ret, d.outcome)]
    /\ UNCHANGED <<lut, cmMutex, store, constructed, writes, resets>>

\* CacheBin::write, which may fail; then the record is memoized and the bin
\* returned
GcbWrite(t) ==
    LET l == th[t].l
        bin == th[t].bin
        key == getMetadataKey(th[t].profile)
    IN
    /\ At(t, "gcb_write")
    /\ \E ok \in BOOLEAN :
           store' = IF ok THEN [store EXCEPT ![bin][key] = th[t].meta] ELSE store
    /\ writes' = [writes EXCEPT ![l][key] = writes[l][key] + 1]
    /\ layer' = [layer EXCEPT ![l] = Memoize(layer[l], key, th[t].meta)]
    /\ mutex' = [mutex EXCEPT ![l] = Unlock(mutex[l])]
    /\ th' = [th EXCEPT ![t] = Finish([th[t] EXCEPT !.nw = th[t].nw + 1],
                                      bin, "created")]
    /\ UNCHANGED <<lut, cmMutex, settings, crashed, constructed, resets>>

GcbReturn(t) ==
    /\ At(t, "gcb_ret")
    /\ th' = [th EXCEPT ![t] = Idle]
    /\ UNCHANGED <<layer, mutex, lut, cmMutex, settings, store, crashed,
                   constructed, writes, resets>>

\* ------------------------------------------------------------------ setTargetProfileHint, isCached

\* setTargetProfileHint: the hint of the tile source is read again; without a
\* tile source nothing happens, otherwise the cache settings are fetched
CallSetTargetProfileHint(t, l) ==
    /\ At(t, "idle")
    /\ th' = IF layer[l].tileSource = NULL
             THEN th
             ELSE [th EXCEPT ![t] = Call(Start(t, "gcs_chk", l), "gcs_chk", "stph_hint")]
    /\ UNCHANGED <<layer, mutex, lut, cmMutex, settings, store, crashed,
                   constructed, writes, resets>>

\* refreshTileSourceCachePolicyHint: a NO_CACHE hint counts unless the
\* initialization options set a policy; the settings are fetched once more
StphHint(t) ==
    LET l == th[t].l IN
    /\ At(t, "stph_hint")
    /\ th' = [th EXCEPT ![t] =
                 IF HintApplies(layer[l])
                 THEN Call(th[t], "gcs_chk", "stph_set")
                 ELSE Idle]
    /\ UNCHANGED <<layer, mutex, lut, cmMutex, settings, store, crashed,
                   constructed, writes, resets>>

\* getCacheSettings()->cachePolicy() = hint
StphSet(t) ==
    LET l == th[t].l
        cs == th[t].cs
    IN
    /\ At(t, "stph_set")
    /\ IF cs \in {"reg", "priv"}
       THEN /\ settings' = [settings EXCEPT ![l][cs].policy = NO_CACHE]
            /\ th' = [th EXCEPT ![t] = Idle]
            /\ UNCHANGED crashed
       ELSE /\ crashed' = TRUE
            /\ th' = [th EXCEPT ![t].pc = "crashed"]
            /\ UNCHANGED settings
    /\ UNCHANGED <<layer, mutex, lut, cmMutex, store, constructed, writes, resets>>

\* isCached: the policy of the cache settings is consulted first
CallIsCached(t, l, p) ==
    /\ At(t, "idle")
    /\ th' = [th EXCEPT ![t] =
                 [Call(Start(t, "gcs_chk", l), "gcs_chk", "isc_policy")
                     EXCEPT !.profile = p]]
    /\ UNCHANGED <<layer, mutex, lut, cmMutex, settings, store, crashed,
                   constructed, writes, resets>>

\* isCached consults the policy first: not cached with caching disabled, cached
\* in cache-only mode, otherwise the bin has to be asked
PolicyAnswer(pol) ==
    IF isCacheDisabled(pol) THEN "notcached"
    ELSE IF isCacheOnly(pol) THEN "cached"
    ELSE "ask"

\* with caching disabled or cache-only the answer is known; otherwise the bin
\* of the key's profile is asked for, and the record's status read from it
IscPolicy(t) ==
    LET l == th[t].l
        cs == th[t].cs
    IN
    /\ At(t, "isc_policy")
    /\ IF cs \in {"reg", "priv"}
       THEN /\ th' = [th EXCEPT ![t] =
                        IF PolicyAnswer(settings[l][cs].policy) # "ask"
                        THEN [Idle EXCEPT !.pc = "isc_ret", !.l = l,
                                          !.profile = th[t].profile,
                                          !.outcome = PolicyAnswer(settings[l][cs].policy)]
                        ELSE [Start(t, "gcb_chk", l) EXCEPT !.profile = th[t].profile]]
            /\ UNCHANGED crashed
       ELSE /\ crashed' = TRUE
            /\ th' = [th EXCEPT ![t].pc = "crashed"]
    /\ UNCHANGED <<layer, mutex, lut, cmMutex, settings, store,
                   constructed, writes, resets>>

\* isCached returns the answer the policy gave
IscReturn(t) ==
    /\ At(t, "isc_ret")
    /\ th' = [th EXCEPT ![t] = Idle]
    /\ UNCHANGED <<layer, mutex, lut, cmMutex, settings, store, crashed,
                   constructed, writes, resets>>

\* ------------------------------------------------------------------ specification

SroSteps(t) == SetReadOptionsStore(t) \/ SetReadOptionsReset(t)

GosSteps(t) == GosCheck(t) \/ GosLock(t) \/ GosRecheck(t) \/ GosConstruct(t)

GcsSteps(t) ==
    \/ GcsCheck(t)
    \/ GcsLock(t)
    \/ GcsAssign(t)
    \/ GcsMerge(t)
    \/ GcsBin(t)
    \/ GcsBackupNew(t)
    \/ GcsBackupPolicy(t)
    \/ GcsReturn(t)

OpenSteps(t) == OpenCheck(t) \/ OpenLock(t) \/ OpenBody(t) \/ OpenReturn(t)

GcbSteps(t) ==
    \/ GcbCheck(t)
    \/ GcbPolicy(t)
    \/ GcbProtocol(t)
    \/ GcbWrite(t)
    \/ GcbReturn(t)

\* the life of a layer: setReadOptions, open and getCacheBin
LayerCalls(t, ls) ==
    \/ \E l \in ls, cm \in BOOLEAN : CallSetReadOptions(t, l, cm)
    \/ \E l \in ls : CallOpen(t, l)
    \/ \E l \in ls, p \in ProfileArgs : CallGetCacheBin(t, l, p)

LayerSteps(t) ==
    SroSteps(t) \/ GosSteps(t) \/ GcsSteps(t) \/ OpenSteps(t) \/ GcbSteps(t)

\* the cache policy a layer's options may give: none, or read-write
RuntimePolicies == {DEFAULT, CachePolicy("READ_WRITE")}

\* Spec: two threads on one layer, whose bin holds under every key nothing, an
\* unparsable string, or a record of either driver
UniformStores ==
    {[b \in BinIds |-> [k \in Keys |-> IF b = "binA" THEN c ELSE ABSENT]] :
        c \in {ABSENT, CORRUPT} \cup {StoredRecord("binA", d) : d \in Drivers}}

Init ==
    /\ \E rp \in RuntimePolicies :
           layer = [l \in Layers |->
                       [NewLayer("tms", "binA", FALSE, 1, "geo") EXCEPT
                           !.runtimePolicy = rp]]
    /\ store \in UniformStores
    /\ InitRest

Next == \E t \in Threads : LayerCalls(t, {"L1"}) \/ LayerSteps(t)

Spec == Init /\ [][Next]_vars

\* SpecManager: two threads asking the manager for settings, directly and through
\* getCacheSettings of layers with and without a manager in their read options
ManagerCalls(t) ==
    \/ \E id \in Layers : CallGetOrCreateSettings(t, id)
    \/ \E l \in Layers : CallGetCacheSettings(t, l)

InitManager ==
    /\ \E cm \in [Layers -> BOOLEAN] :
           layer = [l \in Layers |->
                       [NewLayer("tms", "binA", FALSE, 1, "geo") EXCEPT
                           !.readOptionsCM = cm[l]]]
    /\ store = [b \in BinIds |-> [k \in Keys |-> ABSENT]]
    /\ InitRest

NextManager ==
    \E t \in Threads :
        ManagerCalls(t) \/ GosSteps(t) \/ GosDone(t) \/ GcsSteps(t) \/ GcsDone(t)

SpecManager == InitManager /\ [][NextManager]_vars

\* SpecPolicy: one layer, opened and asked for its settings by two threads, for
\* every choice of the manager's default policy, the layer's own policy, and
\* the tile source's hint and last-modified time
ManagerPolicies ==
    {DEFAULT, NO_CACHE, CachePolicy("READ_WRITE"),
     [usage |-> UNSET, minTime |-> Unset, maxAge |-> Some(5)],
     [usage |-> "READ_WRITE", minTime |-> Some(3), maxAge |-> Unset]}

LayerPolicies ==
    {DEFAULT, NO_CACHE, CACHE_ONLY, CachePolicy("READ_WRITE"),
     [usage |-> UNSET, minTime |-> Unset, maxAge |-> Some(9)]}

InitPolicy ==
    /\ \E mp \in ManagerPolicies, lp \in LayerPolicies,
          hint \in BOOLEAN, lastMod \in {0, 1} :
           layer = [l \in Layers |->
                       [NewLayer("tms", "binA", hint, lastMod, "geo") EXCEPT
                           !.readOptionsCM = TRUE,
                           !.cmPolicy = mp,
                           !.runtimePolicy = lp,
                           !.initPolicySet = (lp # DEFAULT)]]
    /\ store = [b \in BinIds |-> [k \in Keys |-> ABSENT]]
    /\ InitRest

NextPolicy ==
    \E t \in Threads :
        \/ CallOpen(t, "L1")
        \/ CallGetCacheSettings(t, "L1")
        \/ GosSteps(t)
        \/ GcsCheck(t) \/ GcsLock(t) \/ GcsAssign(t) \/ GcsMerge(t) \/ GcsBin(t)
        \/ GcsReturn(t) \/ GcsDone(t)
        \/ OpenSteps(t)

SpecPolicy == InitPolicy /\ [][NextPolicy]_vars

\* SpecMerge: the two merges of getCacheSettings applied to any three policies:
\* the manager's default the settings start with, the effective policy and the
\* layer's own policy. Each policy sets or leaves unset each of its fields, with
\* values that tell the three apart
SourcePolicies(u, mt, ma) ==
    {[usage |-> x, minTime |-> y, maxAge |-> z] :
        x \in {UNSET, u}, y \in {Unset, Some(mt)}, z \in {Unset, Some(ma)}}

InitMerge ==
    /\ \E p1 \in SourcePolicies("READ_WRITE", 1, 11),
          p2 \in SourcePolicies("CACHE_ONLY", 2, 12),
          p3 \in SourcePolicies("NO_CACHE", 3, 13) :
           layer = [l \in Layers |->
                       [NewLayer("tms", "binA", FALSE, 1, "geo") EXCEPT
                           !.readOptionsCM = TRUE,
                           !.cmPolicy = p1,
                           !.effectiveCachePolicy = p2,
                           !.runtimePolicy = p3]]
    /\ store = [b \in BinIds |-> [k \in Keys |-> ABSENT]]
    /\ InitRest

NextMerge ==
    \E t \in Threads :
        \/ CallGetCacheSettings(t, "L1")
        \/ GosSteps(t)
        \/ GcsCheck(t) \/ GcsLock(t) \/ GcsAssign(t) \/ GcsMerge(t) \/ GcsBin(t)
        \/ GcsReturn(t) \/ GcsDone(t)

SpecMerge == InitMerge /\ [][NextMerge]_vars

\* SpecShared: two layers of the same cache id, so of one bin, which starts
\* empty; each thread works on a layer of its own and asks for the bin of a real
\* profile
LayerOf == [t \in Threads |-> IF t = "t1" THEN "L1" ELSE "L2"]

InitShared ==
    /\ \E d \in Drivers, cm \in BOOLEAN :
           layer = [l \in Layers |->
                       [NewLayer(IF l = "L1" THEN "tms" ELSE d, "binA", FALSE, 1, "geo")
                           EXCEPT !.readOptionsCM = (l = "L1" \/ cm)]]
    /\ store = [b \in BinIds |-> [k \in Keys |-> ABSENT]]
    /\ InitRest

NextShared ==
    \E t \in Threads :
        \/ CallOpen(t, LayerOf[t])
        \/ CallGetCacheBin(t, LayerOf[t], "geo")
        \/ GosSteps(t) \/ GcsSteps(t) \/ OpenSteps(t) \/ GcbSteps(t)

SpecShared == InitShared /\ [][NextShared]_vars

\* ------------------------------------------------------------------ properties

\* the layer, settings policy, key and stored content a thread in getCacheBin
\* works on
Lyr(t) == layer[th[t].l]
Pol(t) == settings[th[t].l][th[t].cs].policy
KeyOf(t) == getMetadataKey(th[t].profile)
Content(t) == store[th[t].bin][KeyOf(t)]

\* this step, thread t runs the guarded section of getCacheBin for a key that
\* is not memoized: it reads the key, with the result th'[t].rr
Runs(t) ==
    /\ th[t].pc = "gcb_lock"
    /\ th'[t].pc # "gcb_lock"
    /\ th'[t].outcome # "lookup"

\* threads inside the guarded section of getCacheBin of layer l
InSection(l) == {t \in Threads : th[t].l = l /\ th[t].pc = "gcb_write"}

C6_CacheOnlyWithoutBinDisables ==
    [][\A t \in Threads :
        (/\ Runs(t)
         /\ th'[t].rr # "valid"
         /\ Pol(t).usage = "CACHE_ONLY"
         /\ (Lyr(t).tileSource = NULL \/ Lyr(t).profile = NULL))
        => (/\ th'[t].pc = "gcb_ret"
            /\ th'[t].ret = NULL
            /\ ~layer'[th[t].l].enabled)]_vars

C6_Witness ==
    \E t \in Threads :
        /\ th[t].pc = "gcb_ret" /\ th[t].outcome = "disabled" /\ th[t].ret = NULL
        /\ ~layer[th[t].l].enabled
        /\ layer[th[t].l].tileSource = NULL
        /\ settings[th[t].l]["reg"].policy.usage = "CACHE_ONLY"

\* C7: no valid record, no tile source (or no profile), and the policy is not
\* cache-only: the call returns no bin, the policy becomes NO_CACHE and the
\* enabled flag is untouched
C7_NoSourceRejectsCaching ==
    [][\A t \in Threads :
        (/\ Runs(t)
         /\ th'[t].rr # "valid"
         /\ Pol(t).usage # "CACHE_ONLY"
         /\ (Lyr(t).tileSource = NULL \/ Lyr(t).profile = NULL))
        => (/\ th'[t].pc = "gcb_ret"
            /\ th'[t].ret = NULL
            /\ settings'[th[t].l][th[t].cs].policy.usage = "NO_CACHE"
            /\ layer'[th[t].l].enabled = Lyr(t).enabled)]_vars

C7_Witness ==
    \E t \in Threads :
        /\ th[t].pc = "gcb_ret" /\ th[t].outcome = "rejected" /\ th[t].ret = NULL
        /\ th[t].rr = "notfound"
        /\ layer[th[t].l].tileSource = NULL
        /\ settings[th[t].l]["reg"].policy.usage = "NO_CACHE"


\* C8: no valid record under the requested key, and a tile source and a layer
\* profile are there: a fresh record is built whose cacheBinId is the layer's
\* cache id and whose sourceDriver is the tile source's driver; it is written
\* under the key exactly once, memoized for the key, and the bin is returned
C8_AbsentWithSourceCreates ==
    [][\A t \in Threads :
        /\ (/\ Runs(t)
            /\ th'[t].rr = "notfound"
            /\ HasSource(Lyr(t)))
           => (/\ th'[t].pc = "gcb_write"
               /\ th'[t].meta.cacheBinId = Lyr(t).cacheId
               /\ th'[t].meta.sourceDriver = Lyr(t).tileSource
               /\ th'[t].nw = 0
               /\ store' = store)
        /\ (th[t].pc = "gcb_write" /\ th'[t].pc # "gcb_write")
           => (/\ th'[t].pc = "gcb_ret"
               /\ th'[t].ret = th[t].bin
               /\ th'[t].nw = 1
               /\ writes'[th[t].l][KeyOf(t)] = writes[th[t].l][KeyOf(t)] + 1
               /\ store'[th[t].bin][KeyOf(t)] \in {th[t].meta, Content(t)}
               /\ layer'[th[t].l].cacheBinMetadata[KeyOf(t)] = th[t].meta)]_vars

\* C9: a read that succeeds with an unparsable record ends as a read that finds
\* nothing would in the same state: the same record to write, or the same
\* result, policy and enabled flag
C9_CorruptAsAbsent ==
    [][\A t \in Threads :
        (Runs(t) /\ th'[t].rr = "corrupt")
        => LET a == Decide(Lyr(t), Pol(t), th[t].profile, th[t].bin,
                           ABSENT, "notfound")
           IN
           /\ layer'[th[t].l] = a.layer
           /\ settings'[th[t].l][th[t].cs].policy = a.policy
           /\ store' = store
           /\ IF a.next = "gcb_write"
              THEN /\ th'[t].pc \in {"gcb_write", "crashed"}
                   /\ th'[t].meta = a.meta
                   /\ crashed' => a.deref
              ELSE /\ th'[t].pc = "gcb_ret"
                   /\ th'[t].ret = a.ret
                   /\ th'[t].outcome = a.outcome
                   /\ ~crashed']_vars

\* an unparsable record was replaced by a new one
C9_Witness ==
    \E t \in Threads :
        /\ th[t].pc = "gcb_ret" /\ th[t].rr = "corrupt"
        /\ th[t].outcome = "created" /\ th[t].ret = "binA"
        /\ IsRecord(layer[th[t].l].cacheBinMetadata[getMetadataKey(th[t].profile)])

C1_OneSettingsPerId ==
    \A id \in Layers :
        /\ constructed[id] <= 1
        /\ lut[id] = constructed[id]
        /\ \A t \in Threads :
              (th[t].l = id /\ th[t].pc \in {"gos_done", "gcs_assign"})
              => (th[t].ret = "reg" /\ th[t].inst = 1 /\ lut[id] = 1)

\* both threads asked for the same new id and hold the one instance
C1_Witness ==
    /\ th["t1"].pc = "gos_done" /\ th["t2"].pc = "gos_done"
    /\ th["t1"].l = th["t2"].l
    /\ th["t1"].inst = 1 /\ th["t2"].inst = 1
    /\ constructed[th["t1"].l] = 1

\* C3: layers that share a bin create its metadata one at a time: no two of them
\* are at once about to write a record under the same key of the bin, and no
\* more than one write is issued to a key of the bin that started empty
C3_SharedBinCreatesOnce ==
    /\ \A t, u \in Threads :
          (/\ t # u
           /\ th[t].pc = "gcb_write" /\ th[u].pc = "gcb_write"
           /\ th[t].rr = "notfound" /\ th[u].rr = "notfound")
          => (th[t].bin # th[u].bin \/ KeyOf(t) # KeyOf(u))
    /\ \A k \in Keys : writes["L1"][k] + writes["L2"][k] <= 1

\* C5: a record the bin holds keeps its sourceDriver and cacheBinId whatever is
\* done, and a call that finds a driver mismatch writes nothing
C5_StoredIdentityStable ==
    [][/\ \A b \in BinIds, k \in Keys :
            IsRecord(store[b][k])
            => (/\ IsRecord(store'[b][k])
                /\ store'[b][k].sourceDriver = store[b][k].sourceDriver
                /\ store'[b][k].cacheBinId = store[b][k].cacheBinId)
       /\ \A t \in Threads :
            (th'[t].pc = "gcb_ret" /\ th'[t].outcome = "mismatch" /\ th[t].pc # "gcb_ret")
            => (store' = store /\ writes' = writes)]_vars


\* layer l holds a memoized record for key k
Memoized(l, k) == layer[l].cacheBinMetadata[k] # NoRecord

\* this step, a thread leaves setReadOptions on layer l, having cleared its caches
Resets(l) ==
    \E t \in Threads :
        th[t].pc = "sro_reset" /\ th[t].l = l /\ th'[t].pc = "idle"

\* this step, thread t passes the guarded section of getCacheBin as a lookup:
\* nothing is read from the bin and nothing written to it
LooksUp(t) ==
    /\ th'[t].pc = "gcb_ret"
    /\ th'[t].outcome = "lookup"
    /\ th'[t].rr = NONE
    /\ th'[t].nw = 0
    /\ th'[t].meta = Lyr(t).cacheBinMetadata[KeyOf(t)]
    /\ th'[t].ret = th[t].bin
    /\ store' = store
    /\ writes' = writes
    /\ layer' = layer

\* C11 as stated: whatever is done to a layer, a key that is memoized stays
\* memoized with the same record, and every getCacheBin call that reaches the
\* guarded section for a memoized key is a lookup with no read and no write
C11_PopulatedOnceEver ==
    [][/\ \A l \in Layers, k \in Keys :
            Memoized(l, k)
            => layer'[l].cacheBinMetadata[k] = layer[l].cacheBinMetadata[k]
       /\ \A t \in Threads :
            (/\ th[t].pc = "gcb_lock" /\ th'[t].pc # "gcb_lock"
             /\ Memoized(th[t].l, KeyOf(t)))
            => LooksUp(t)]_vars

\* C11 amended: a key that is memoized stays memoized with the same record
\* until setReadOptions clears the layer's metadata cache, and until then every
\* getCacheBin call that reaches the guarded section for it is a lookup with no
\* read and no write
C11_PopulatedOncePerReset ==
    [][/\ \A l \in Layers, k \in Keys :
            Memoized(l, k)
            => \/ layer'[l].cacheBinMetadata[k] = layer[l].cacheBinMetadata[k]
               \/ Resets(l) /\ layer'[l].cacheBinMetadata = NoMeta
       /\ \A t \in Threads :
            (/\ th[t].pc = "gcb_lock" /\ th'[t].pc # "gcb_lock"
             /\ Memoized(th[t].l, KeyOf(t)))
            => LooksUp(t)]_vars

\* a later call, with no other call running, found the key the layer had written
\* once
C11_Witness ==
    \E t, u \in Threads :
        /\ t # u /\ th[u].pc = "idle"
        /\ th[t].pc = "gcb_ret" /\ th[t].outcome = "lookup"
        /\ writes[th[t].l][getMetadataKey(th[t].profile)] = 1
        /\ th[t].meta = layer[th[t].l].cacheBinMetadata[getMetadataKey(th[t].profile)]
        /\ IsRecord(th[t].meta)




\* the field of the highest of the given policies, lowest first, that sets it
Highest(f, unset, ps) ==
    LET set == {i \in 1..Len(ps) : ps[i][f] # unset} IN
    IF set = {} THEN unset
    ELSE ps[CHOOSE i \in set : \A j \in set : j <= i][f]

\* every field taken from the highest of the policies ps that sets it
ByPrecedence(ps) ==
    [usage |-> Highest("usage", UNSET, ps),
     minTime |-> Highest("minTime", Unset, ps),
     maxAge |-> Highest("maxAge", Unset, ps)]

\* the cache-policy hint of layer ly's tile source
Hint(ly) == IF ly.tsHintNoCache THEN NO_CACHE ELSE DEFAULT

\* layer l is open with a tile source, and its settings are the manager's
OpenedWithSource(l) ==
    layer[l].openCalled /\ layer[l].tileSource # NULL /\ layer[l].cacheSettings = "reg"

C13_MergeTakesHighestSet ==
    [][\A t \in Threads :
        (th[t].pc = "gcs_merge" /\ th'[t].pc = "gcs_bin")
        => LET l == th[t].l
               p1 == settings[l]["reg"].policy
               p2 == layer[l].effectiveCachePolicy
               p3 == layer[l].runtimePolicy
               once == mergeAndOverride(p1, p2)
           IN
           /\ settings'[l]["reg"].policy = ByPrecedence(<<p1, p2, p3>>)
           /\ once.usage = (IF p2.usage = UNSET THEN p1.usage ELSE p2.usage)
           /\ once.minTime = (IF p2.minTime = Unset THEN p1.minTime ELSE p2.minTime)
           /\ once.maxAge = (IF p2.maxAge = Unset THEN p1.maxAge ELSE p2.maxAge)]_vars

\* three policies were merged of which the first alone sets the usage, the
\* second overrides the minimum time and the third the maximum age
C13_Witness ==
    \E t \in Threads :
        /\ th[t].pc = "gcs_bin" /\ th[t].l = "L1"
        /\ layer["L1"].cmPolicy = [usage |-> "READ_WRITE", minTime |-> Some(1),
                                   maxAge |-> Some(11)]
        /\ layer["L1"].effectiveCachePolicy.minTime = Some(2)
        /\ layer["L1"].runtimePolicy.maxAge = Some(13)
        /\ settings["L1"]["reg"].policy =
              [usage |-> "READ_WRITE", minTime |-> Some(2), maxAge |-> Some(13)]

\* ------------------------------------------------------------------ C14, C15

\* SpecIdentity: two layers built from Configs that hold a driver with its url
\* and any of a name, a level bound, cache-control settings, a cache id (empty
\* or not) and a vertical datum; init() runs on each
NoKey == "nokey"

Strip(r) == [k \in {x \in DOMAIN r : r[x] # NoKey} |-> r[k]]

IdentityConfs ==
    {Strip(r) : r \in [driver : {"tms"},
                       url : {"u1", "u2"},
                       name : {"A", "B"},
                       min_level : {NoKey, "3"},
                       cache_policy : {NoKey, ""},
                       cache_only : {NoKey, "true"},
                       cacheid : {NoKey, "", "binA"},
                       vdatum : {NoKey, "egm96", "egm84"}]}

InitIdentity ==
    /\ \E c1 \in IdentityConfs, c2 \in IdentityConfs :
           layer = [l \in Layers |->
                       LayerFromConfig(IF l = "L1" THEN c1 ELSE c2, FALSE, 1, "geo")]
    /\ store = [b \in BinIds |-> [k \in Keys |-> ABSENT]]
    /\ InitRest

NextIdentity == \E l \in Layers : init(l)

SpecIdentity == InitIdentity /\ [][NextIdentity]_vars

\* the generic layer settings and the cache-control settings of a Config
GenericKeys ==
    {"name", "min_level", "max_level", "min_resolution", "max_resolution",
     "visible", "enabled", "loading_weight"}

CacheKeys == {"cache_policy", "cache_only", "cache_enabled", "cacheid", "l2_cache_size"}

\* Configs a and b hold the same under every key outside ks
SameButFor(a, b, ks) ==
    /\ DOMAIN a \ ks = DOMAIN b \ ks
    /\ \A k \in DOMAIN a \ ks : a[k] = b[k]

\* both layers went through init()
BothInitialized == \A l \in Layers : layer[l].initCalled

\* the Config gives the layer a cache id of its own
Overridden(l) == hasValue(layer[l].conf, "cacheid")

\* C14 as stated: two layers whose Configs differ only in generic layer
\* settings or in cache-control settings, the cacheid among them, have the same
\* cache identity after init().
C14_IdentityIgnoresCacheId ==
    \A l1 \in Layers, l2 \in Layers :
        (/\ BothInitialized
         /\ SameButFor(layer[l1].conf, layer[l2].conf, GenericKeys \cup CacheKeys))
        => layer[l1].cacheId = layer[l2].cacheId

\* C14: two layers whose Configs differ only in generic layer settings or in
\* cache-control settings, and of which neither supplies a non-empty cacheid,
\* have the same generated cache identity after init().
C14_GeneratedIdentityIsFiltered ==
    \A l1 \in Layers, l2 \in Layers :
        (/\ BothInitialized
         /\ ~Overridden(l1) /\ ~Overridden(l2)
         /\ SameButFor(layer[l1].conf, layer[l2].conf, GenericKeys \cup CacheKeys))
        => layer[l1].cacheId = layer[l2].cacheId

\* two initialized layers that differ in name, level bound, cache policy,
\* cache-only flag and (empty) cacheid, and have one identity
C14_Witness ==
    /\ BothInitialized
    /\ ~Overridden("L1") /\ ~Overridden("L2")
    /\ layer["L1"].conf["name"] # layer["L2"].conf["name"]
    /\ "min_level" \in DOMAIN layer["L1"].conf /\ "min_level" \notin DOMAIN layer["L2"].conf
    /\ "cache_only" \in DOMAIN layer["L1"].conf /\ "cache_only" \notin DOMAIN layer["L2"].conf
    /\ "cache_policy" \in DOMAIN layer["L1"].conf /\ "cache_policy" \notin DOMAIN layer["L2"].conf
    /\ "cacheid" \in DOMAIN layer["L1"].conf /\ "cacheid" \notin DOMAIN layer["L2"].conf
    /\ SameButFor(layer["L1"].conf, layer["L2"].conf, GenericKeys \cup CacheKeys)
    /\ layer["L1"].cacheId = layer["L2"].cacheId

\* the vertical datum a Config gives, or NoKey
Datum(c) == IF hasValue(c, "vdatum") THEN c["vdatum"] ELSE NoKey

\* the layers have the same driver configuration, and one has a vertical datum
\* which the other has not
DatumDiffers(l1, l2) ==
    /\ SameButFor(layer[l1].conf, layer[l2].conf,
                  GenericKeys \cup CacheKeys \cup {"vdatum"})
    /\ Datum(layer[l1].conf) # Datum(layer[l2].conf)

\* C15: two layers with the same driver configuration and different vertical
\* datums (or one with a datum and one without) hash different Configs in
\* init(), and where init() generates their identities these differ and name
\* different bins.
C15_DatumChangesIdentity ==
    \A l1 \in Layers, l2 \in Layers :
        (BothInitialized /\ DatumDiffers(l1, l2))
        => /\ toJSON(hashConf(layer[l1].conf)) # toJSON(hashConf(layer[l2].conf))
           /\ (~Overridden(l1) /\ ~Overridden(l2))
              => /\ layer[l1].cacheId # layer[l2].cacheId
                 /\ addBin(layer[l1].cacheId) \cap addBin(layer[l2].cacheId) = {NULL}

\* two initialized layers with generated identities: the same url, one with a
\* datum and one without
C15_Witness ==
    /\ BothInitialized
    /\ ~Overridden("L1") /\ ~Overridden("L2")
    /\ DatumDiffers("L1", "L2")
    /\ Datum(layer["L1"].conf) = "egm96"
    /\ Datum(layer["L2"].conf) = NoKey
    /\ layer["L1"].cacheId # layer["L2"].cacheId

\* ------------------------------------------------------------------ C16, C17

\* SpecNamed: layer L1 named A and layer L2 named B on the same driver and url,
\* each with or without a cacheid of its own and a vertical datum, both past
\* init(), L2 with or without a cache manager in its read options; their bins
\* start empty, and each thread opens its own layer and asks for the bin of a
\* real profile
NamedConfs(name) ==
    {Strip(r) : r \in [driver : {"tms"},
                       url : {"u1"},
                       name : {name},
                       cacheid : {NoKey, "binA"},
                       vdatum : {NoKey, "egm96"}]}

NamedBinIds ==
    BinIds \cup {generateCacheId(c) : c \in NamedConfs("A") \cup NamedConfs("B")}

InitNamed ==
    /\ \E c1 \in NamedConfs("A"), c2 \in NamedConfs("B"), cm \in BOOLEAN :
           layer = [l \in Layers |->
                       [Initialized(LayerFromConfig(IF l = "L1" THEN c1 ELSE c2,
                                                    FALSE, 1, "geo"))
                           EXCEPT !.readOptionsCM = (l = "L1" \/ cm)]]
    /\ store = [b \in NamedBinIds |-> [k \in Keys |-> ABSENT]]
    /\ InitRest

NextNamed ==
    \E t \in Threads :
        \/ CallOpen(t, LayerOf[t])
        \/ CallGetCacheBin(t, LayerOf[t], "geo")
        \/ GosSteps(t) \/ GcsSteps(t) \/ OpenSteps(t) \/ GcbSteps(t)

SpecNamed == InitNamed /\ [][NextNamed]_vars

\* the records layer l has memoized or is about to write
RecordsOf(l) ==
    {layer[l].cacheBinMetadata[k] : k \in {x \in Keys : Memoized(l, x)}}
    \cup {th[t].meta : t \in {x \in Threads : th[x].l = l /\ th[x].pc = "gcb_write"}}

\* C16: for a layer whose Config supplies a non-empty cacheid, the bin its
\* cache settings hold and the cacheBinId of every metadata record it creates
\* or memoizes are that cacheid, never the identity generated from the Config.
C16_OverrideIsTheIdentity ==
    \A l \in Layers :
        Overridden(l) =>
            /\ layer[l].cacheId = layer[l].conf["cacheid"]
            /\ layer[l].cacheId # generateCacheId(layer[l].conf)
            /\ settings[l]["reg"].bin \in {NULL, layer[l].conf["cacheid"]}
            /\ \A m \in RecordsOf(l) : m.cacheBinId = layer[l].conf["cacheid"]

\* a layer with a cacheid of its own has opened the bin of that name and has
\* created and memoized a record for it
C16_Witness ==
    /\ Overridden("L1")
    /\ settings["L1"]["reg"].bin = "binA"
    /\ writes["L1"][getMetadataKey("geo")] = 1
    /\ Memoized("L1", getMetadataKey("geo"))
    /\ layer["L1"].cacheBinMetadata[getMetadataKey("geo")].cacheBinId = "binA"

\* the layers are configured alike but for their names
AlikeButForName ==
    /\ SameButFor(layer["L1"].conf, layer["L2"].conf, {"name"})
    /\ layer["L1"].conf["name"] # layer["L2"].conf["name"]

\* L1 has created the record the bin now holds under the key of thread t
CreatedByL1(t) ==
    /\ writes["L1"][KeyOf(t)] > 0
    /\ Memoized("L1", KeyOf(t))
    /\ Content(t) = layer["L1"].cacheBinMetadata[KeyOf(t)]

\* C17: two layers configured alike but for their names have the same cache
\* identity and, where both hold a bin, the same bin; once L1 has created the
\* metadata record of a key, L2's next getCacheBin that is not a lookup reads
\* that record and goes on without a write of its own.
C17_SecondLayerReadsTheRecord ==
    [][AlikeButForName =>
          /\ layer["L1"].cacheId = layer["L2"].cacheId
          /\ (settings["L1"]["reg"].bin # NULL /\ settings["L2"]["reg"].bin # NULL)
             => settings["L1"]["reg"].bin = settings["L2"]["reg"].bin
          /\ (Runs("t2") /\ CreatedByL1("t2"))
             => /\ th'["t2"].rr = "valid"
                /\ th'["t2"].meta = Content("t2")
                /\ th'["t2"].pc # "gcb_write"]_vars

\* ------------------------------------------------------------------ C18

\* the active bin of each kind of settings of layer l
ActiveBin(l, kind) == settings[l][kind].bin

EndsWithoutSource(t) ==
    /\ th[t].pc = "open_body"
    /\ th[t].cs \in {"reg", "priv"}
    /\ ~isCacheOnly(Pol(t))
    /\ th'[t].pc = "open_ret"
    /\ layer'[th[t].l].tileSource = NULL

\* the settings thread t works with give a cache to use: the policy enables
\* caching and there is an active bin
UsableCache(t) ==
    /\ isCacheEnabled(Pol(t))
    /\ settings[th[t].l][th[t].cs].bin # NULL

\* C19: whenever createTileSource ends without a tile source, either there is
\* a usable cache and the policy has been forced to cache-only, or there is
\* none and the layer is disabled; the layer is not left enabled with neither.
C19_NoSourceForcesCacheOnlyOrDisables ==
    [][\A t \in Threads :
          EndsWithoutSource(t) =>
              IF UsableCache(t)
              THEN isCacheOnly(Pol(t)') /\ layer'[th[t].l].enabled
              ELSE ~layer'[th[t].l].enabled]_vars

\* ------------------------------------------------------------------ C20

\* SpecDisable: one caller working on one layer with every operation that
\* touches the cache state, disable() among them, in any order; the layer's
\* options give a policy or none, its tile source hints NO_CACHE or not, its
\* read options carry a cache manager or not
InitDisable ==
    /\ \E rp \in RuntimePolicies, hint \in BOOLEAN, cm \in BOOLEAN :
           layer = [l \in Layers |->
                       [NewLayer("tms", "binA", hint, 1, "geo") EXCEPT
                           !.runtimePolicy = rp,
                           !.readOptionsCM = cm]]
    /\ store \in UniformStores
    /\ InitRest

NextDisable ==
    \E t \in {"t1"} :
        \/ \E cm \in BOOLEAN : CallSetReadOptions(t, "L1", cm)
        \/ CallOpen(t, "L1")
        \/ CallGetCacheSettings(t, "L1")
        \/ \E p \in ProfileArgs : CallGetCacheBin(t, "L1", p)
        \/ \E p \in ProfileArgs : CallIsCached(t, "L1", p)
        \/ CallSetTargetProfileHint(t, "L1")
        \/ CallDisable(t, "L1")
        \/ LayerSteps(t)
        \/ GcsDone(t)
        \/ StphHint(t) \/ StphSet(t)
        \/ IscPolicy(t) \/ IscReturn(t)

SpecDisable == InitDisable /\ [][NextDisable]_vars

\* C20: once a layer's enabled flag is false no step of open, getCacheSettings,
\* getCacheBin, isCached, setTargetProfileHint, setReadOptions or disable makes
\* it true again, and disable() on a disabled layer changes nothing (disable
\* applied twice gives what it gives applied once).
C20_DisableIsMonotonicAndIdempotent ==
    [][\A l \in Layers :
          /\ ~layer[l].enabled => ~layer'[l].enabled
          /\ ~layer[l].enabled => disable(layer[l]) = layer[l]
          /\ disable(disable(layer[l])) = disable(layer[l])]_vars

\* the layer was disabled by a call of disable() and then opened with a tile
\* source: it is open, has its source, and is still disabled
C20_Witness ==
    /\ ~layer["L1"].enabled
    /\ layer["L1"].openCalled
    /\ layer["L1"].tileSource # NULL
    /\ th["t1"].pc = "open_ret"

\* ------------------------------------------------------------------ C21

\* this step, thread t's read of the metadata key fails at the backend although
\* a valid record is stored under it
ReadFails(t) == Runs(t) /\ th'[t].rr = "ioerror" /\ IsRecord(Content(t))

\* this step, thread t's write of the metadata record is issued (it may fail)
WriteIssued(t) == th[t].pc = "gcb_write" /\ th'[t].pc # "gcb_write"

\* C21: no step of getCacheBin in which the read of a stored record fails at
\* the backend, or in which the write of the record is issued and may fail,
\* disables the layer.
C21_BackendFailureNeverDisables ==
    [][\A t \in Threads :
          (ReadFails(t) \/ WriteIssued(t))
          => layer'[th[t].l].enabled = layer[th[t].l].enabled]_vars

\* ------------------------------------------------------------------ C22

\* SpecKeys: two threads on one layer whose options give no policy or
\* cache-only, whose read options carry a cache manager or not, and whose bin
\* holds under each of the two keys, independently, nothing or a record of
\* either driver
KeyedStores ==
    {[b \in BinIds |-> IF b = "binA" THEN f ELSE [k \in Keys |-> ABSENT]] :
        f \in [Keys -> {ABSENT} \cup {StoredRecord("binA", d) : d \in Drivers}]}

InitKeys ==
    /\ \E rp \in {DEFAULT, CACHE_ONLY}, cm \in BOOLEAN :
           layer = [l \in Layers |->
                       [NewLayer("tms", "binA", FALSE, 1, "geo") EXCEPT
                           !.runtimePolicy = rp,
                           !.initPolicySet = (rp # DEFAULT),
                           !.readOptionsCM = cm]]
    /\ store \in KeyedStores
    /\ InitRest

NextKeys ==
    \E t \in Threads :
        \/ CallOpen(t, "L1")
        \/ \E p \in ProfileArgs : CallGetCacheBin(t, "L1", p)
        \/ GosSteps(t) \/ GcsSteps(t) \/ OpenSteps(t) \/ GcbSteps(t)

SpecKeys == InitKeys /\ [][NextKeys]_vars

\* this step is thread t's, inside getCacheBin, and switches its layer off
DisabledByGetCacheBin(t) ==
    /\ th[t].pc \in {"gcb_chk", "gcb_policy", "gcb_lock", "gcb_write"}
    /\ th'[t] # th[t]
    /\ layer[th[t].l].enabled
    /\ ~layer'[th[t].l].enabled

\* the layer of thread t has accepted a record for another key than t's
AcceptedOtherKey(t) ==
    \E k \in Keys \ {KeyOf(t)} : Memoized(th[t].l, k)

\* C22 as stated, the particular case: a cache-only layer that has accepted a
\* valid record for one key is not disabled by a getCacheBin for another key
\* under which the bin holds nothing.
C22_OtherKeyAbsentKeepsLayer ==
    [][\A t \in Threads :
          (/\ Runs(t)
           /\ isCacheOnly(Pol(t))
           /\ AcceptedOtherKey(t)
           /\ Content(t) = ABSENT)
          => layer'[th[t].l].enabled = layer[th[t].l].enabled]_vars

\* C22: getCacheBin disables the layer only where the policy is cache-only, the
\* layer has no tile source with a profile, and the read of the key asked for
\* gave no valid record; records accepted for other keys do not count, so with
\* no tile source a cache-only layer is disabled by the first key the bin
\* holds nothing under.
C22_DisablesOnlyWithoutSourceAndRecord ==
    [][\A t \in Threads :
          /\ DisabledByGetCacheBin(t)
             => /\ Runs(t)
                /\ isCacheOnly(Pol(t))
                /\ ~(Lyr(t).tileSource # NULL /\ Lyr(t).profile # NULL)
                /\ th'[t].rr # "valid"
          /\ (Runs(t) /\ isCacheOnly(Pol(t)) /\ Lyr(t).tileSource = NULL
              /\ Content(t) = ABSENT)
             => ~layer'[th[t].l].enabled]_vars

\* a cache-only layer without a tile source holds the record of one key and
\* has just been disabled by getCacheBin for the other key, which is absent
C22_Witness ==
    \E t \in Threads :
        /\ th[t].pc = "gcb_ret"
        /\ th[t].outcome = "disabled"
        /\ th[t].rr = "notfound"
        /\ AcceptedOtherKey(t)
        /\ ~Lyr(t).enabled
        /\ Lyr(t).tileSource = NULL

\* ------------------------------------------------------------------ C23

\* SpecLifetime: two threads and two layers; a layer's read options are set,
\* with or without the cache manager, its cache settings fetched, and the layer
\* destroyed, after which it is not used any more
InitLifetime ==
    /\ \E cm \in [Layers -> BOOLEAN] :
           layer = [l \in Layers |->
                       [NewLayer("tms", "binA", FALSE, 1, "geo") EXCEPT
                           !.readOptionsCM = cm[l]]]
    /\ store = [b \in BinIds |-> [k \in Keys |-> ABSENT]]
    /\ InitRest

NextLifetime ==
    \E t \in Threads :
        \/ \E l \in Layers, cm \in BOOLEAN :
               ~layer[l].destroyed /\ CallSetReadOptions(t, l, cm)
        \/ \E l \in Layers : ~layer[l].destroyed /\ CallGetCacheSettings(t, l)
        \/ \E l \in Layers : Destroy(t, l)
        \/ SroSteps(t) \/ GosSteps(t) \/ GcsSteps(t) \/ GcsDone(t)

SpecLifetime == InitLifetime /\ [][NextLifetime]_vars

\* C23: after a layer is destroyed the manager's registry holds no entry for
\* the layer's id, and the registry holds entries only for ids for which
\* settings were requested.
C23_DestroyedLayerHasNoEntry ==
    \A l \in Layers :
        /\ layer[l].destroyed => lut[l] = 0
        /\ lut[l] # 0 => constructed[l] > 0

\* ------------------------------------------------------------------ C24

\* SpecRegistry: two threads asking the manager for the settings of ids and
\* closing ids, in any order
InitRegistry ==
    /\ layer = [l \in Layers |-> NewLayer("tms", "binA", FALSE, 1, "geo")]
    /\ store = [b \in BinIds |-> [k \in Keys |-> ABSENT]]
    /\ InitRest

NextRegistry ==
    \E t \in Threads :
        \/ \E id \in Layers : CallGetOrCreateSettings(t, id)
        \/ \E id \in Layers : CallClose(t, id)
        \/ GosSteps(t) \/ GosDone(t)

SpecRegistry == InitRegistry /\ [][NextRegistry]_vars

\* C24: close(id) removes the entry of id and leaves every other entry as it
\* is, changes nothing when id has no entry, and applied twice gives what it
\* gives applied once; no step that removes an entry touches another entry.
C24_CloseIsIdempotentAndTotal ==
    [][\A id \in Layers :
          /\ close(lut, id)[id] = 0
          /\ \A other \in Layers \ {id} : close(lut, id)[other] = lut[other]
          /\ lut[id] = 0 => close(lut, id) = lut
          /\ close(close(lut, id), id) = close(lut, id)
          /\ (lut[id] # 0 /\ lut'[id] = 0)
             => \A other \in Layers \ {id} : lut'[other] = lut[other]]_vars

\* an id was closed while the other id keeps its entry, and closing it again
\* changes nothing
C24_Witness ==
    /\ constructed["L1"] > 0
    /\ lut["L1"] = 0
    /\ lut["L2"] # 0
    /\ close(lut, "L1") = lut

\* ------------------------------------------------------------------ C25

\* the layer mutexes thread t holds
Held(t) == {l \in Layers : mutex[l].owner = t}

\* thread t is inside getCacheBin, holding its layer's mutex, at the bin write
InBinIO(t) == th[t].pc = "gcb_write"

\* thread u is in the middle of a call on another layer than thread t's
OnOtherLayer(u, t) ==
    /\ u # t
    /\ th[u].pc \notin {"idle", "crashed"}
    /\ th[u].l # th[t].l

\* C25 as stated: a thread that holds a layer's mutex holds neither the
\* manager's registry mutex nor another layer's mutex.
C25_LayerLockExcludesRegistryLock ==
    \A t \in Threads :
        Held(t) # {} => (cmMutex # t /\ Cardinality(Held(t)) = 1)

\* C25: a thread holds at most one layer's mutex, and the registry mutex only
\* inside getOrCreateSettings; a thread at the bin write inside getCacheBin
\* holds its layer's mutex and nothing else, and while it stays there the next
\* step of any call on another layer is enabled, so that call runs to its end.
C25_OtherLayerRunsDuringBinIO ==
    \A t \in Threads :
        /\ Cardinality(Held(t)) <= 1
        /\ cmMutex = t => th[t].pc \in {"gos_rechk", "gos_new"}
        /\ InBinIO(t) =>
              /\ Held(t) = {th[t].l}
              /\ cmMutex # t
              /\ \A u \in Threads :
                    (~crashed /\ OnOtherLayer(u, t))
                    => ENABLED (GosSteps(u) \/ GcsSteps(u) \/ OpenSteps(u) \/ GcbSteps(u))

\* one thread is at the bin write on L1 while the other is about to take the
\* mutex of L2
C25_Witness ==
    /\ InBinIO("t1")
    /\ th["t1"].l = "L1"
    /\ th["t2"].l = "L2"
    /\ th["t2"].pc \in {"gcs_lock", "open_lock", "gcb_lock"}

\* ------------------------------------------------------------------ C26

\* layer l is open with a tile source that reports a last-modified time, its
\* own policy gives no expiration, and no hint has replaced the policy
OpenedWithLastModified(l) ==
    /\ layer[l].openCalled
    /\ layer[l].tileSource # NULL
    /\ layer[l].tsLastModified > 0
    /\ layer[l].runtimePolicy.minTime = Unset
    /\ layer[l].runtimePolicy.maxAge = Unset
    /\ ~layer[l].tsHintNoCache
    /\ layer[l].cacheSettings # NULL

\* C26: once open() has created a tile source that reports a last-modified
\* time T > 0, and the layer's own policy has neither minTime nor maxAge, the
\* policy of the layer's cache settings has minTime = T.
C26_LastModifiedIsTheMinTime ==
    \A l \in Layers :
        OpenedWithLastModified(l)
        => settings[l][layer[l].cacheSettings].policy.minTime
              = Some(layer[l].tsLastModified)

\* ------------------------------------------------------------------ C27

\* SpecHint: one caller opens a layer, replaces its read options, fetches its
\* settings and sets the target profile hint, in any order; the layer's options
\* give a policy or none, the tile source hints NO_CACHE or not, the read
\* options carry a cache manager or not, whose default is unset or read-write
InitHint ==
    /\ \E rp \in RuntimePolicies, hint \in BOOLEAN, cm \in BOOLEAN,
          mp \in RuntimePolicies :
           layer = [l \in Layers |->
                       [NewLayer("tms", "binA", hint, 1, "geo") EXCEPT
                           !.runtimePolicy = rp,
                           !.initPolicySet = (rp # DEFAULT),
                           !.cmPolicy = mp,
                           !.readOptionsCM = cm]]
    /\ store = [b \in BinIds |-> [k \in Keys |-> ABSENT]]
    /\ InitRest

NextHint ==
    \E t \in {"t1"} :
        \/ \E cm \in BOOLEAN : CallSetReadOptions(t, "L1", cm)
        \/ CallOpen(t, "L1")
        \/ CallGetCacheSettings(t, "L1")
        \/ CallSetTargetProfileHint(t, "L1")
        \/ SroSteps(t) \/ GosSteps(t) \/ GcsSteps(t) \/ OpenSteps(t)
        \/ GcsDone(t)
        \/ StphHint(t) \/ StphSet(t)

SpecHint == InitHint /\ [][NextHint]_vars

\* thread t is inside the refreshTileSourceCachePolicyHint of a
\* setTargetProfileHint call
InRefresh(t) ==
    \/ th[t].pc \in {"stph_hint", "stph_set"}
    \/ /\ th[t].stack # <<>>
       /\ th[t].stack[Len(th[t].stack)] \in {"stph_hint", "stph_set"}

\* this step, thread t runs the refreshTileSourceCachePolicyHint of open(), with
\* the tile source just created
RefreshInOpen(t) ==
    /\ th[t].pc = "open_body"
    /\ layer'[th[t].l].tileSource # NULL

\* the hint counts for layer ly: a tile source is given, the initialization
\* options set no policy, the hint's usage is NO_CACHE
HintCounts(ly) == ly.tileSource # NULL /\ ~ly.initPolicySet /\ ly.tsHintNoCache

\* this step changes the cache settings of layer l: the binding, a policy or a bin
SettingsChange(l) ==
    \/ settings'[l] # settings[l]
    \/ layer'[l].cacheSettings # layer[l].cacheSettings

\* thread t is building the settings of a layer that had none bound: the
\* locked part of getCacheSettings
Binds(t) ==
    th[t].pc \in {"gos_chk", "gos_lock", "gos_rechk", "gos_new",
                  "gcs_assign", "gcs_merge", "gcs_bin", "gcs_backup", "gcs_backup2"}

\* C27 as stated: a step of refreshTileSourceCachePolicyHint changes the
\* layer's cache settings only when a tile source is given, the initialization
\* options set no policy and the hint is NO_CACHE, and then the policy becomes
\* the hint; in every other case the settings are as they were.
C27_RefreshChangesOnlyByHint ==
    [][\A t \in Threads :
          /\ (InRefresh(t) /\ SettingsChange(th[t].l))
             => /\ HintCounts(layer[th[t].l])
                /\ settings' = [settings EXCEPT ![th[t].l][th[t].cs].policy = NO_CACHE]
          /\ RefreshInOpen(t)
             => settings' = [settings EXCEPT ![th[t].l][th[t].cs].policy =
                                IF HintCounts(layer'[th[t].l])
                                THEN NO_CACHE ELSE @]]_vars

\* C27: with the layer's settings bound, refreshTileSourceCachePolicyHint
\* changes them only when a tile source is given, the initialization options
\* set no policy and the hint is NO_CACHE, and then the settings' policy
\* becomes the hint, whatever the manager's default; otherwise they are as
\* they were. With a tile source and no settings bound, the getCacheSettings()
\* of its condition binds them first, whatever the hint.
C27_RefreshChangesByHintOrBinds ==
    [][\A t \in Threads :
          /\ (InRefresh(t) /\ SettingsChange(th[t].l))
             => \/ /\ th[t].pc = "stph_set"
                   /\ HintCounts(layer[th[t].l])
                   /\ layer'[th[t].l].cacheSettings = layer[th[t].l].cacheSettings
                   /\ settings' = [settings EXCEPT
                                      ![th[t].l][th[t].cs].policy = NO_CACHE]
                \/ /\ Binds(t)
                   /\ layer[th[t].l].tileSource # NULL
          /\ (InRefresh(t) /\ Binds(t)) => mutex[th[t].l].owner = t
          /\ (InRefresh(t) /\ th[t].pc = "stph_set") => HintCounts(layer[th[t].l])
          /\ RefreshInOpen(t)
             => settings' = [settings EXCEPT ![th[t].l][th[t].cs].policy =
                                IF HintCounts(layer'[th[t].l])
                                THEN NO_CACHE ELSE @]]_vars

\* the layer is open with a tile source whose NO_CACHE hint has replaced the
\* policy of the manager's settings, against a read-write manager default
C27_Witness ==
    /\ layer["L1"].openCalled
    /\ HintCounts(layer["L1"])
    /\ layer["L1"].cmPolicy.usage = "READ_WRITE"
    /\ layer["L1"].cacheSettings = "reg"
    /\ settings["L1"]["reg"].policy = NO_CACHE
    /\ th["t1"].pc = "idle"
    /\ resets["L1"] = 1

\* ------------------------------------------------------------------ C28

\* thread t is inside a call of open()
InOpen(t) ==
    \/ th[t].pc \in {"open_chk", "open_lock", "open_body", "open_ret"}
    \/ /\ th[t].stack # <<>>
       /\ th[t].stack[Len(th[t].stack)] = "open_body"

\* this step is a step of thread t
StepOf(t) == th'[t] # th[t]

\* C28: over any sequential or concurrent open() calls on a layer,
\* createTileSource is called at most once, and once a call of open() has
\* completed (the layer is marked open) no step of any open() call changes the
\* layer, its cache settings, the registry or the bins.
C28_TileSourceCreatedAtMostOnce ==
    [][\A l \in Layers :
          /\ layer[l].tsCreations <= 1
          /\ layer'[l].tsCreations <= 1
          /\ layer[l].openCalled => layer'[l].openCalled
          /\ \A t \in Threads :
                (StepOf(t) /\ InOpen(t) /\ th[t].l = l /\ layer[l].openCalled)
                => UNCHANGED <<layer, settings, lut, store, mutex>>]_vars

\* two calls of open() are over: one fetched the settings and called
\* createTileSource, the other returned without doing either
C28_Witness ==
    /\ layer["L1"].tsCreations = 1
    /\ layer["L1"].openCalled
    /\ th["t1"].pc = "open_ret"
    /\ th["t2"].pc = "open_ret"
    /\ th["t1"].cs # NULL
    /\ th["t2"].cs = NULL

\* ------------------------------------------------------------------ C29

\* the policy of the settings bound to layer l is cache-only
BoundCacheOnly(l) ==
    /\ layer[l].cacheSettings # NULL
    /\ isCacheOnly(settings[l][layer[l].cacheSettings].policy)

\* this step, open() marks layer l as opened
Opens(l) == ~layer[l].openCalled /\ layer'[l].openCalled

\* C29: when open() runs on a layer without a pre-created tile source whose
\* settings' policy is cache-only, it marks the layer as opened without calling
\* createTileSource and leaves the tile source null; and the tile source of an
\* opened layer for which createTileSource was never called stays null.
C29_CacheOnlyOpensWithoutSource ==
    [][\A l \in Layers :
          /\ \A t \in Threads :
                (StepOf(t) /\ th[t].pc = "open_body" /\ th[t].l = l
                   /\ BoundCacheOnly(l) /\ layer[l].tileSource = NULL)
                => /\ Opens(l)
                   /\ layer'[l].tsCreations = layer[l].tsCreations
                   /\ layer'[l].tileSource = NULL
          /\ (layer[l].openCalled /\ layer[l].tsCreations = 0)
             => /\ layer[l].tileSource = NULL
                /\ layer'[l].tileSource = NULL
                /\ layer'[l].tsCreations = 0]_vars

\* a layer with a cache-only policy has been opened: createTileSource was not
\* called and there is no tile source
C29_Witness ==
    /\ layer["L1"].openCalled
    /\ layer["L1"].runtimePolicy = CACHE_ONLY
    /\ BoundCacheOnly("L1")
    /\ layer["L1"].tsCreations = 0
    /\ layer["L1"].tileSource = NULL
    /\ th["t1"].pc = "open_ret"
    /\ th["t1"].cs = "reg"

\* ------------------------------------------------------------------ C30

\* this step writes the metadata cache, the cache-settings binding or the
\* enabled flag of layer l
GuardedWrite(l) ==
    \/ layer'[l].cacheBinMetadata # layer[l].cacheBinMetadata
    \/ layer'[l].cacheSettings # layer[l].cacheSettings
    \/ layer'[l].enabled # layer[l].enabled

\* this step is a step of thread t on layer l made with the mutex of l: held
\* before, held after, or taken and released within the step
LockedStep(t, l) ==
    /\ StepOf(t)
    /\ th[t].l = l
    /\ \/ mutex[l].owner = t
       \/ mutex'[l].owner = t
       \/ mutex[l].owner = NONE /\ th[t].pc \in {"gcb_lock", "sro_reset"}

\* C30: every write to a layer's metadata cache, to its cache-settings binding
\* and to its enabled flag is made by a thread that holds the layer's mutex.
C30_GuardedWritesHoldTheMutex ==
    [][\A l \in Layers :
          GuardedWrite(l) => \E t \in Threads : LockedStep(t, l)]_vars

\* ------------------------------------------------------------------ C31

\* SpecOpenLive: the one caller of SpecHint, which goes on with a call it has
\* begun as long as its next step is possible
ThreadRuns(t) ==
    \/ SroSteps(t) \/ GosSteps(t) \/ GcsSteps(t) \/ OpenSteps(t)
    \/ GcsDone(t)
    \/ StphHint(t) \/ StphSet(t)

SpecOpenLive == InitHint /\ [][NextHint]_vars /\ WF_vars(ThreadRuns("t1"))

Building(u, l) ==
    /\ th[u].l = l
    /\ th[u].pc \in {"gcs_merge", "gcs_bin", "gcs_backup2"}

\* this step, getCacheSettings returns the layer's settings to thread t
Receives(t) ==
    /\ th[t].pc = "gcs_ret"
    /\ StepOf(t)
    /\ layer[th[t].l].cacheSettings # NULL

\* C32: no caller of getCacheSettings receives settings that are still being
\* built: when the call returns, no other thread is between the binding of the
\* settings and the end of the merge of the policies and the opening of the bin.
C32_NoPartialSettingsObserved ==
    [][\A t \in Threads :
          Receives(t)
          => ~ \E u \in Threads \ {t} : Building(u, th[t].l)]_vars

\* ------------------------------------------------------------------ C33

\* this step, getCacheSettings returns to thread t what _cacheSettings holds
Returns(t) == th[t].pc = "gcs_ret" /\ th'[t].pc # "gcs_ret"

\* C33: getCacheSettings never returns null, also when it runs concurrently
\* with setReadOptions; and private settings have policy NO_CACHE and no bin
\* when they are returned.
C33_SettingsNeverNull ==
    [][\A t \in Threads :
          Returns(t)
          => /\ th'[t].cs # NULL
             /\ th'[t].cs = "priv"
                => /\ settings[th[t].l]["priv"].bin = NULL
                   /\ \/ settings[th[t].l]["priv"].policy = NO_CACHE
                      \/ \E u \in Threads \ {t} : Building(u, th[t].l)]_vars

\* ------------------------------------------------------------------ C34

\* this step, a getCacheBin call of thread t ends and hands out a bin
HandsOutBin(t) ==
    /\ th[t].pc \in {"gcb_lock", "gcb_write"}
    /\ th'[t].pc = "gcb_ret"
    /\ th'[t].ret # NULL

\* C34: whenever a getCacheBin call returns a bin, the policy of the layer's
\* cache settings is not NO_CACHE at that moment: after one thread has rejected
\* caching, no other thread of the layer receives the bin.
C34_NoBinAfterRejection ==
    [][\A t \in Threads :
          HandsOutBin(t)
          => isCacheEnabled(settings'[th[t].l][th[t].cs].policy)]_vars

\* ------------------------------------------------------------------ C35

\* this step, thread t, called with no profile, runs the guarded section of
\* getCacheBin for the default key, finds no record under it and has a tile
\* source and a layer profile to create one from
CreatesForDefaultKey(t) ==
    /\ Runs(t)
    /\ th[t].profile = NULL
    /\ KeyOf(t) = "_metadata"
    /\ ~metadataOK(th'[t].rr)
    /\ HasSource(Lyr(t))

\* C35: getCacheBin called with no profile works on the key "_metadata" and,
\* when no record is found under it and a tile source and a layer profile are
\* there, goes on to write a new record without dereferencing the missing
\* profile: the process does not die, and the record's cache profile is not
\* read through the null pointer.
C35_DefaultKeyCreatesWithoutDeref ==
    [][\A t \in Threads :
          CreatesForDefaultKey(t)
          => /\ ~crashed'
             /\ th'[t].pc = "gcb_write"
             /\ th'[t].meta.cacheProfile # toProfileOptions("garbage")]_vars

\* ------------------------------------------------------------------ C36

\* this step, thread t puts a record into the metadata cache under its key
Memoizes(t) ==
    /\ StepOf(t)
    /\ th[t].pc \in {"gcb_lock", "gcb_write"}
    /\ layer'[th[t].l].cacheBinMetadata[KeyOf(t)]
          # layer[th[t].l].cacheBinMetadata[KeyOf(t)]
    /\ layer'[th[t].l].cacheBinMetadata[KeyOf(t)] # NoRecord

\* record m was read from the bin by thread t in this step, parsed, and is of
\* the live tile source's driver if there is one
ReadAndChecked(t, m) ==
    /\ th[t].pc = "gcb_lock"
    /\ th'[t].rr = "valid"
    /\ m = Content(t)
    /\ IsRecord(m)
    /\ HasSource(Lyr(t)) => m.sourceDriver = Lyr(t).tileSource

\* record m is the one thread t has created for the layer
FreshlyCreated(t, m) ==
    /\ th[t].pc = "gcb_write"
    /\ th[t].rr # "valid"
    /\ m = th[t].meta
    /\ IsRecord(m)
    /\ m.cacheBinId = Lyr(t).cacheId
    /\ m.sourceDriver = Lyr(t).tileSource

CachingOff(l) ==
    /\ resets[l] = 0
    /\ layer[l].cacheSettings # NULL
    /\ isCacheDisabled(settings[l][layer[l].cacheSettings].policy)

\* C37: once the policy of a layer's settings is NO_CACHE, and as long as
\* setReadOptions is not called, it stays NO_CACHE; every getCacheBin call
\* that ends then returns null without a read or a write of the bin, and
\* isCached answers from the policy alone, with false.
C37_RejectionIsAbsorbing ==
    [][\A l \in Layers :
          CachingOff(l)
          => /\ resets'[l] = 0
                => /\ layer'[l].cacheSettings = layer[l].cacheSettings
                   /\ isCacheDisabled(settings'[l][layer[l].cacheSettings].policy)
             /\ store' = store
             /\ writes' = writes
             /\ \A t \in Threads :
                   /\ (th[t].l = l /\ th[t].pc # "gcb_ret" /\ th'[t].pc = "gcb_ret")
                      => /\ th'[t].ret = NULL
                         /\ th'[t].rr = NONE
                         /\ th'[t].nw = 0
                   /\ (th[t].l = l /\ th[t].pc = "isc_policy" /\ StepOf(t))
                      => /\ th'[t].pc = "isc_ret"
                         /\ th'[t].outcome = "notcached"]_vars

\* getCacheBin has rejected caching for a layer whose tile source gives no
\* hint and whose manager and options do not disable caching, and a later
\* getCacheBin call has returned no bin, stopped by the policy
C37_Witness ==
    /\ CachingOff("L1")
    /\ layer["L1"].cacheSettings = "reg"
    /\ ~layer["L1"].tsHintNoCache
    /\ layer["L1"].tileSource # NULL
    /\ th["t1"].pc = "gcb_ret"
    /\ th["t1"].outcome = "nocache"

====
